---------------------------- MODULE Spec2Model ----------------------------
(***************************************************************************)
(* Model of the two reconstruction engines of the bank-statement cleaner:  *)
(*   - csv_cleaning.calculate_difference_and_verify (ledger reconciler),   *)
(*   - date_cleaning.process_all_dates (chronology repairer).              *)
(* Amounts are integers in cents.  A table cell holding an amount is <<>>  *)
(* (NaN / empty) or <<c>> (the amount c cents).                            *)
(***************************************************************************)
EXTENDS Integers, Sequences, FiniteSets, TLC

(***************************************************************************)
(* Bounds of the model.                                                    *)
(***************************************************************************)
MaxRows == 3

(***************************************************************************)
(* Program constants.                                                      *)
(***************************************************************************)
\* 1.0 in cents: the bounds of the open interval tested at line 939.
OneUnit == 100
\* tolerance = 0.001 (line 1028), in tenths of a cent.
Tolerance == 1

NaN == <<>>

Abs(x) == IF x < 0 THEN -x ELSE x

VARIABLES
    df,             \* the table handed to calculate_difference_and_verify
    df_diff,        \* the working copy the function returns
    all_correct,    \* second component of the result
    adjusted,       \* third component of the result
    rpc,            \* position inside calculate_difference_and_verify
    table,          \* the table handed to process_all_dates (rows, value-date column)
    date_order,     \* the direction date_correction / rotate_if_descending returns
    new_date_order, \* the direction recomputed at line 1219 after the reversal
    iteration,      \* passes of the local repair loop executed so far
    made_correction,\* the flag of the last pass of the local repair loop
    dpc,            \* position inside process_all_dates
    run,            \* 1: first call of process_all_dates, 2: the call on its output
    original,       \* the table given to the first call
    snapshot,       \* tables recorded along the run (history)
    cell,           \* the raw cell handed to an amount function or to parse_custom_date
    called,         \* the function that was applied to the cell, "" before the call
    returned        \* what that function returned

recVars == <<df, df_diff, all_correct, adjusted, rpc>>

dateVars == <<table, date_order, new_date_order, iteration, made_correction,
              dpc, run, original, snapshot>>

tokenVars == <<cell, called, returned>>

vars == <<df, df_diff, all_correct, adjusted, rpc,
          table, date_order, new_date_order, iteration, made_correction,
          dpc, run, original, snapshot, cell, called, returned>>

(***************************************************************************)
(* Input tables of the reconciler.  cols is the set of roles for which the *)
(* table has a column: "Debits" (a column whose name contains 'debit'),    *)
(* "Credits" (contains 'credit'), "Balance" ('Balance_Corrected' or        *)
(* 'Balance').  A role without a column carries NaN cells in the model.    *)
(***************************************************************************)
Roles == {"Debits", "Credits", "Balance"}

BalanceCells == {NaN, <<0>>, <<1>>, <<100>>}
CreditCells  == {NaN, <<100>>}
DebitCells   == {<<0>>, <<-1>>}

ColumnOf(present, cells, n) ==
    IF present THEN [1..n -> cells] ELSE {[i \in 1..n |-> NaN]}

NoTable == [cols |-> {}, n |-> 0, Debits |-> <<>>, Credits |-> <<>>,
            Balance_Adjusted |-> <<>>, Difference |-> <<>>]

(***************************************************************************)
(* Helpers of calculate_difference_and_verify.                             *)
(***************************************************************************)
\* round_to_2: NaN and empty cells become 0.0, numbers are rounded to cents.
round_to_2(val) == IF val = NaN THEN 0 ELSE val[1]

\* a variant of line 917 that leaves the debit out
difference_without_debit(prev_balance, curr_credit, curr_debit, curr_balance) ==
    prev_balance + curr_credit - curr_balance

\* line 917 / 1004: Balance(i-1) + Credit(i) + Debit(i) - Balance(i)
difference(prev_balance, curr_credit, curr_debit, curr_balance) ==
    prev_balance + curr_credit + curr_debit - curr_balance

\* a variant of line 939 with the bounds included: -1 <= d <= 1
all_differences_in_range_inclusive(differences) ==
    \A i \in DOMAIN differences :
        differences[i] >= -OneUnit /\ differences[i] <= OneUnit

\* line 939: every entry of the Difference column strictly inside (-1, 1)
all_differences_in_range(differences) ==
    \A i \in DOMAIN differences :
        differences[i] > -OneUnit /\ differences[i] < OneUnit

\* a variant of line 971 that leaves the debit out
should_be_balance_without_debit(prev_adjusted_balance, curr_credit, curr_debit) ==
    prev_adjusted_balance + curr_credit

\* line 971: what the balance should be, from the previous adjusted one
should_be_balance(prev_adjusted_balance, curr_credit, curr_debit) ==
    prev_adjusted_balance + curr_credit + curr_debit

\* lines 946-974: the list adjusted_balances
adjusted_balances(t) ==
    LET f[i \in 1..t.n] ==
            IF i = 1
            THEN IF t.Balance_Adjusted[1] # NaN
                 THEN round_to_2(t.Balance_Adjusted[1]) ELSE 0
            ELSE should_be_balance(f[i-1], round_to_2(t.Credits[i]),
                                   round_to_2(t.Debits[i]))
    IN  [i \in 1..t.n |-> f[i]]

\* a variant of line 1031 without abs(): negative differences pass
non_zero_diffs_signed(differences) ==
    { i \in DOMAIN differences : differences[i] * 10 > Tolerance }

\* lines 1031-1032: rows whose |Difference| exceeds the tolerance
non_zero_diffs(differences) ==
    { i \in DOMAIN differences : Abs(differences[i]) * 10 > Tolerance }

(***************************************************************************)
(* calculate_difference_and_verify, in its successive steps.               *)
(***************************************************************************)
\* lines 811-875: copy, new columns, column lookup, missing-column return.
\* Line 819 reads df['Balance'] when 'Balance_Corrected' is absent: with
\* neither column the subscript raises KeyError out of the function.
RecPrepare ==
    /\ rpc = "start"
    /\ IF "Balance" \notin df.cols
       THEN /\ rpc' = "raised"
            /\ UNCHANGED <<df_diff, all_correct, adjusted>>
       ELSE /\ df_diff' = [cols |-> df.cols \cup {"Difference", "Balance_Adjusted"},
                           n |-> df.n,
                           Debits |-> df.Debits,
                           Credits |-> df.Credits,
                           Balance_Adjusted |-> df.Balance,
                           Difference |-> [i \in 1..df.n |-> 0]]
            /\ IF {"Debits", "Credits"} \subseteq df.cols
               THEN /\ rpc' = "columns_ok"
                    /\ UNCHANGED <<all_correct, adjusted>>
               ELSE /\ rpc' = "done"
                    /\ all_correct' = FALSE
                    /\ adjusted' = FALSE
    /\ UNCHANGED <<df, dateVars, tokenVars>>

\* lines 886-932: round the three columns, then Difference for rows 1..n-1.
RecComputeDifferences ==
    /\ rpc = "columns_ok"
    /\ LET deb == [i \in 1..df_diff.n |-> <<round_to_2(df_diff.Debits[i])>>]
           cre == [i \in 1..df_diff.n |-> <<round_to_2(df_diff.Credits[i])>>]
           bal == [i \in 1..df_diff.n |-> <<round_to_2(df_diff.Balance_Adjusted[i])>>]
       IN  df_diff' = [df_diff EXCEPT
                         !.Debits = deb,
                         !.Credits = cre,
                         !.Balance_Adjusted = bal,
                         !.Difference = [i \in 1..df_diff.n |->
                              IF i = 1 THEN 0
                              ELSE difference(round_to_2(bal[i-1]), round_to_2(cre[i]),
                                              round_to_2(deb[i]), round_to_2(bal[i]))]]
    /\ rpc' = "differences"
    /\ UNCHANGED <<df, all_correct, adjusted, dateVars, tokenVars>>

\* lines 941-1007: the adjustment branch.
RecAdjust ==
    /\ rpc = "differences"
    /\ all_differences_in_range(df_diff.Difference) /\ df_diff.n > 1
    /\ LET adj == adjusted_balances(df_diff)
           bal == [i \in 1..df_diff.n |-> <<adj[i]>>]
       IN  df_diff' = [df_diff EXCEPT
                         !.Balance_Adjusted = bal,
                         !.Difference = [i \in 1..df_diff.n |->
                              IF i = 1 THEN df_diff.Difference[1]
                              ELSE difference(round_to_2(bal[i-1]),
                                              round_to_2(df_diff.Credits[i]),
                                              round_to_2(df_diff.Debits[i]),
                                              round_to_2(bal[i]))]]
    /\ adjusted' = TRUE
    /\ rpc' = "decided"
    /\ UNCHANGED <<df, all_correct, dateVars, tokenVars>>

\* lines 1010-1025: no adjustment.
RecNoAdjust ==
    /\ rpc = "differences"
    /\ ~(all_differences_in_range(df_diff.Difference) /\ df_diff.n > 1)
    /\ adjusted' = FALSE
    /\ rpc' = "decided"
    /\ UNCHANGED <<df, df_diff, all_correct, dateVars, tokenVars>>

\* lines 1027-1062: the tolerance check and the return.
RecVerify ==
    /\ rpc = "decided"
    /\ all_correct' = (non_zero_diffs(df_diff.Difference) = {})
    /\ rpc' = "done"
    /\ UNCHANGED <<df, df_diff, adjusted, dateVars, tokenVars>>

(***************************************************************************)
(* Dates.  A cell of a date column is a string, modelled by its shape:     *)
(*   <<>>                   None / NaN / ""                                *)
(*   <<"dmy", d, m, y>>     "DD/MM/YYYY"                                   *)
(*   <<"ymd", y, m, d>>     "YYYY-MM-DD"                                   *)
(*   <<"y", y>>             a bare 4-digit year                            *)
(*   <<"junk">>             text no format accepts                         *)
(***************************************************************************)
EMPTY == <<>>

DMY(d, m, y) == <<"dmy", d, m, y>>

\* the leap-year test of is_valid_date (line 242)
IsLeap(year) == (year % 4 = 0 /\ year % 100 # 0) \/ (year % 400 = 0)

\* is_valid_date (lines 227-253)
is_valid_date(date_str) ==
    /\ Len(date_str) = 4
    /\ date_str[1] = "dmy"
    /\ LET day == date_str[2]  month == date_str[3]  year == date_str[4]
       IN  /\ 1 <= day /\ day <= 31
           /\ 1 <= month /\ month <= 12
           /\ 1900 <= year /\ year <= 2100
           /\ ~(month \in {4, 6, 9, 11} /\ day > 30)
           /\ month = 2 => IF IsLeap(year) THEN day <= 29 ELSE day <= 28

\* datetime(year, month, day) as a day number (proleptic Gregorian calendar)
datetime(year, month, day) ==
    LET yy  == IF month <= 2 THEN year - 1 ELSE year
        era == yy \div 400
        yoe == yy - era * 400
        mp  == IF month > 2 THEN month - 3 ELSE month + 9
        doy == (153 * mp + 2) \div 5 + day - 1
        doe == yoe * 365 + yoe \div 4 - yoe \div 100 + doy
    IN  era * 146097 + doe

\* datetime of a 'DD/MM/YYYY' string: map(int, s.split('/')) then datetime(...)
dt(date_str) == datetime(date_str[4], date_str[3], date_str[2])

\* strftime('%d/%m/%Y') of a day number
strftime(z) ==
    LET era == z \div 146097
        doe == z - era * 146097
        yoe == (doe - doe \div 1460 + doe \div 36524 - doe \div 146096) \div 365
        doy == doe - (365 * yoe + yoe \div 4 - yoe \div 100)
        mp  == (5 * doy + 2) \div 153
        day == doy - (153 * mp + 2) \div 5 + 1
        month == IF mp < 10 THEN mp + 3 ELSE mp - 9
        year == yoe + era * 400 + (IF month <= 2 THEN 1 ELSE 0)
    IN  DMY(day, month, year)

\* parse_custom_date (lines 90-225) on the shapes above: the standalone "00"
\* rejection (99-100), YYYY-MM-DD (164-167), DD/MM/YYYY (169-172), the bare
\* year (200-201); anything else falls through to None.
parse_custom_date(x) ==
    IF x = EMPTY THEN EMPTY
    ELSE IF x[1] = "dmy"
         THEN IF x[2] = 0 \/ x[3] = 0 THEN EMPTY ELSE DMY(x[2], x[3], x[4])
    ELSE IF x[1] = "ymd"
         THEN IF x[3] = 0 \/ x[4] = 0 THEN EMPTY ELSE DMY(x[4], x[3], x[2])
    ELSE IF x[1] = "y" THEN x
    ELSE EMPTY

\* is_date_in_order (lines 617-646)
is_date_in_order(date_str, prev_date, next_date, order) ==
    /\ is_valid_date(date_str)
    /\ (prev_date # EMPTY /\ is_valid_date(prev_date)) =>
           /\ ~(order = "ascending" /\ dt(date_str) < dt(prev_date))
           /\ ~(order = "descending" /\ dt(date_str) > dt(prev_date))
    /\ (next_date # EMPTY /\ is_valid_date(next_date)) =>
           /\ ~(order = "ascending" /\ dt(date_str) > dt(next_date))
           /\ ~(order = "descending" /\ dt(date_str) < dt(next_date))

\* the nearest valid date above / below position idx of a list of dates
\* (lines 714-729, 944-954, 1035-1046, 1163-1172); EMPTY stands for None
RECURSIVE prev_valid(_, _)
prev_valid(dates, idx) ==
    IF idx <= 1 THEN EMPTY
    ELSE IF is_valid_date(dates[idx - 1]) THEN dates[idx - 1]
    ELSE prev_valid(dates, idx - 1)

RECURSIVE next_valid(_, _)
next_valid(dates, idx) ==
    IF idx >= Len(dates) THEN EMPTY
    ELSE IF is_valid_date(dates[idx + 1]) THEN dates[idx + 1]
    ELSE next_valid(dates, idx + 1)

\* lines 332-343: the valid dates, first occurrence of each, in row order
RECURSIVE valid_dates_info(_, _, _)
valid_dates_info(dates, idx, acc) ==
    IF idx > Len(dates) THEN acc
    ELSE IF is_valid_date(dates[idx]) /\ \A j \in 1..Len(acc) : acc[j] # dates[idx]
         THEN valid_dates_info(dates, idx + 1, Append(acc, dates[idx]))
    ELSE valid_dates_info(dates, idx + 1, acc)

\* a variant of line 380 that asks for a strict majority
order_vote_strict_majority(info) ==
    LET asc_pairs  == Cardinality({i \in 2..Len(info) : dt(info[i-1]) <= dt(info[i])})
        desc_pairs == Cardinality({i \in 2..Len(info) : dt(info[i-1]) > dt(info[i])})
        first_last_asc == dt(info[1]) <= dt(info[Len(info)])
        asc_matches  == asc_pairs + (IF first_last_asc THEN 1 ELSE 0)
        desc_matches == desc_pairs + (IF first_last_asc THEN 0 ELSE 1)
    IN  IF asc_matches > desc_matches THEN "ascending" ELSE "descending"

\* lines 348-383: the vote over consecutive pairs and the first/last pair
order_vote(info) ==
    LET asc_pairs  == Cardinality({i \in 2..Len(info) : dt(info[i-1]) <= dt(info[i])})
        desc_pairs == Cardinality({i \in 2..Len(info) : dt(info[i-1]) > dt(info[i])})
        first_last_asc == dt(info[1]) <= dt(info[Len(info)])
        asc_matches  == asc_pairs + (IF first_last_asc THEN 1 ELSE 0)
        desc_matches == desc_pairs + (IF first_last_asc THEN 0 ELSE 1)
    IN  IF asc_matches >= desc_matches THEN "ascending" ELSE "descending"

\* get_date_order (lines 329-385)
get_date_order(dates) ==
    LET info == valid_dates_info(dates, 1, <<>>)
    IN  IF Len(info) < 2 THEN "ascending" ELSE order_vote(info)

(***************************************************************************)
(* Rows of the date table: the 'XN Date' cell, the value-date cell and the *)
(* rest of the row (payload), <<>> when every other cell is empty.         *)
(***************************************************************************)
\* is_empty_row (lines 648-656)
is_empty_row(row) == row.xn = EMPTY /\ row.vd = EMPTY /\ row.payload = EMPTY

dates_of(rows) == [i \in 1..Len(rows) |-> rows[i].xn]

\* df['XN Date'] = dates
with_dates(rows, dates) == [i \in 1..Len(rows) |-> [rows[i] EXCEPT !.xn = dates[i]]]

valid(date_str) == date_str # EMPTY /\ is_valid_date(date_str)

\* lines 738-740, 957-959, 988-990, 1015-1017, 1051-1053
same_above_below(prev_date, next_date) ==
    valid(prev_date) /\ valid(next_date) /\ prev_date = next_date

(***************************************************************************)
(* date_correction, Step 3: one row of one pass of the local repair loop.  *)
(***************************************************************************)
\* lines 746-753: Strategy 1, the row's value date
value_date_candidate(row, vcol, prev_date, next_date, order) ==
    IF vcol /\ row.vd # EMPTY
       /\ valid(parse_custom_date(row.vd))
       /\ is_date_in_order(parse_custom_date(row.vd), prev_date, next_date, order)
    THEN parse_custom_date(row.vd)
    ELSE EMPTY

\* a variant of lines 768-803 that takes the midpoint whenever the gap
\* between the neighbours is at most 100 days
predict_ascending_midpoint_first(current_date, prev_date, next_date) ==
    IF valid(prev_date)
    THEN IF valid(next_date)
         THEN LET total_days == dt(next_date) - dt(prev_date)
              IN  IF 0 < total_days /\ total_days <= 100
                  THEN strftime(dt(prev_date) + total_days \div 2)
                  ELSE IF prev_date # next_date
                       THEN strftime(dt(prev_date) + 1) ELSE prev_date
         ELSE strftime(dt(prev_date) + 1)
    ELSE IF valid(next_date) THEN strftime(dt(next_date) - 1)
    ELSE EMPTY

\* lines 757-829: Strategy 2 when the order is ascending
predict_ascending(current_date, prev_date, next_date) ==
    IF valid(prev_date)
    THEN IF valid(next_date)
         THEN IF dt(prev_date) < dt(next_date)
              THEN IF dt(current_date) < dt(prev_date)
                        THEN strftime(dt(prev_date) + 1)
                   ELSE IF dt(current_date) > dt(next_date)
                        THEN strftime(dt(next_date) - 1)
                   ELSE IF dt(current_date) = dt(prev_date)
                        THEN IF prev_date # next_date
                             THEN strftime(dt(prev_date) + 1) ELSE prev_date
                   ELSE LET total_days == dt(next_date) - dt(prev_date)
                        IN  IF 0 < total_days /\ total_days <= 100
                            THEN strftime(dt(prev_date) + total_days \div 2)
                            ELSE IF prev_date # next_date
                                 THEN strftime(dt(prev_date) + 1) ELSE prev_date
              ELSE IF prev_date # next_date
                   THEN strftime(dt(prev_date) + 1) ELSE prev_date
         ELSE strftime(dt(prev_date) + 1)
    ELSE IF valid(next_date) THEN strftime(dt(next_date) - 1)
    ELSE EMPTY

\* lines 831-896: Strategy 2 when the order is descending
predict_descending(current_date, prev_date, next_date) ==
    IF valid(next_date)
    THEN IF valid(prev_date)
         THEN IF dt(next_date) < dt(prev_date)
              THEN IF dt(current_date) > dt(prev_date)
                        THEN strftime(dt(prev_date) - 1)
                   ELSE IF dt(current_date) < dt(next_date)
                        THEN strftime(dt(next_date) + 1)
                   ELSE IF dt(current_date) = dt(prev_date)
                        THEN IF prev_date # next_date
                             THEN strftime(dt(prev_date) - 1) ELSE prev_date
                   ELSE LET total_days == dt(prev_date) - dt(next_date)
                        IN  IF 0 < total_days /\ total_days <= 100
                            THEN strftime(dt(next_date) + total_days \div 2)
                            ELSE IF prev_date # next_date
                                 THEN strftime(dt(next_date) + 1) ELSE next_date
              ELSE IF prev_date # next_date
                   THEN strftime(dt(next_date) + 1) ELSE next_date
         ELSE strftime(dt(next_date) + 1)
    ELSE IF valid(prev_date) THEN strftime(dt(prev_date) - 1)
    ELSE EMPTY

\* lines 737-896: the candidate for a valid date that is out of order
candidate_for(row, vcol, current_date, prev_date, next_date, order) ==
    IF same_above_below(prev_date, next_date) THEN prev_date
    ELSE LET v == value_date_candidate(row, vcol, prev_date, next_date, order)
         IN  IF v # EMPTY THEN v
             ELSE IF order = "ascending"
                  THEN predict_ascending(current_date, prev_date, next_date)
                  ELSE predict_descending(current_date, prev_date, next_date)

\* a variant of lines 898-901 that applies every candidate
apply_candidate_unchecked(current_date, candidate, prev_date, next_date, order) ==
    IF candidate # EMPTY THEN candidate ELSE current_date

\* lines 898-901: the candidate is applied only if valid and in order
apply_candidate(current_date, candidate, prev_date, next_date, order) ==
    IF candidate # EMPTY /\ is_valid_date(candidate)
       /\ is_date_in_order(candidate, prev_date, next_date, order)
    THEN candidate
    ELSE current_date

\* lines 703-901: rows idx..n of one pass; st = [dates, made_correction]
RECURSIVE local_pass(_, _, _, _, _)
local_pass(rows, vcol, order, idx, st) ==
    IF idx > Len(rows) THEN st
    ELSE LET current_date == st.dates[idx]
             prev_date == prev_valid(st.dates, idx)
             next_date == next_valid(st.dates, idx)
         IN  IF is_empty_row(rows[idx]) \/ current_date = EMPTY
                \/ ~is_valid_date(current_date)
                \/ is_date_in_order(current_date, prev_date, next_date, order)
             THEN local_pass(rows, vcol, order, idx + 1, st)
             ELSE local_pass(rows, vcol, order, idx + 1,
                     [dates |-> [st.dates EXCEPT ![idx] =
                                    apply_candidate(current_date,
                                        candidate_for(rows[idx], vcol, current_date,
                                                      prev_date, next_date, order),
                                        prev_date, next_date, order)],
                      made |-> TRUE])

(***************************************************************************)
(* create_date_list_through_backtracking (lines 408-592).  df_dates is the *)
(* 'XN Date' column of df; the result is the list of (index, date) pairs.  *)
(***************************************************************************)
\* keep the pairs whose date is valid (lines 473, 480, 491, 498, 529, 546)
valid_pairs(pairs) == SelectSeq(pairs, LAMBDA pr : is_valid_date(pr[2]))

\* lines 435-444: the value dates that are valid and in order with the bounds
value_dates_found(rows, vcol, missing_indices, before_date, after_date, order) ==
    SelectSeq(missing_indices,
              LAMBDA idx : /\ vcol
                           /\ rows[idx].vd # EMPTY
                           /\ is_valid_date(rows[idx].vd)
                           /\ is_date_in_order(rows[idx].vd, before_date, after_date, order))

\* a variant of lines 467-470 that steps one day per row
between_bounds_one_day_steps(remaining_indices, before_date, after_date, order) ==
    LET sign == IF order = "ascending" THEN 1 ELSE -1
    IN  [i \in 1..Len(remaining_indices) |->
            <<remaining_indices[i], strftime(dt(before_date) + sign * i)>>]

\* lines 456-499: both bounds exist
between_bounds(remaining_indices, before_date, after_date, order) ==
    LET k == Len(remaining_indices)
        total_days == IF order = "ascending"
                      THEN dt(after_date) - dt(before_date)
                      ELSE dt(before_date) - dt(after_date)
        sign == IF order = "ascending" THEN 1 ELSE -1
        \* int((i + 1) * (total_days / (k + 1))), or one day per row
        days(i) == IF total_days > 0 THEN (i * total_days) \div (k + 1) ELSE i
    IN  [i \in 1..k |-> <<remaining_indices[i],
                          strftime(dt(before_date) + sign * days(i))>>]

\* lines 518-533: only the bound above exists
from_before(remaining_indices, before_date, order) ==
    LET sign == IF order = "ascending" THEN 1 ELSE -1
    IN  [i \in 1..Len(remaining_indices) |->
            <<remaining_indices[i], strftime(dt(before_date) + sign * i)>>]

\* lines 535-550: only the bound below exists (rows taken last to first)
from_after(remaining_indices, after_date, order) ==
    LET k == Len(remaining_indices)
        sign == IF order = "ascending" THEN -1 ELSE 1
    IN  [i \in 1..k |->
            <<remaining_indices[k + 1 - i], strftime(dt(after_date) + sign * i)>>]

\* lines 552-588: no bound; step from the first valid date of the column
RECURSIVE offsets_sum(_, _, _, _)
offsets_sum(seq, any_valid_idx, forward, i) ==
    IF i = 0 THEN 0
    ELSE (IF forward THEN seq[i] - any_valid_idx ELSE any_valid_idx - seq[i])
         + offsets_sum(seq, any_valid_idx, forward, i - 1)

from_any_valid(df_dates, remaining_indices, order) ==
    LET found == {i \in 1..Len(df_dates) : is_valid_date(df_dates[i])}
        k == Len(remaining_indices)
    IN  IF found = {} THEN <<>>
        ELSE LET any_valid_idx == CHOOSE i \in found : \A j \in found : i <= j
                 forward == any_valid_idx < remaining_indices[1]
                 seq == IF forward THEN remaining_indices
                        ELSE [i \in 1..k |-> remaining_indices[k + 1 - i]]
                 sign == IF forward = (order = "ascending") THEN 1 ELSE -1
             IN  [i \in 1..k |->
                    <<seq[i], strftime(dt(df_dates[any_valid_idx])
                                       + sign * offsets_sum(seq, any_valid_idx, forward, i))>>]

create_date_list_through_backtracking(df_dates, rows, vcol, missing_indices, order) ==
    IF missing_indices = <<>> THEN <<>>
    ELSE
    LET before_date == prev_valid(df_dates, missing_indices[1])
        after_date  == next_valid(df_dates, missing_indices[Len(missing_indices)])
        found == value_dates_found(rows, vcol, missing_indices,
                                   before_date, after_date, order)
        results == [i \in 1..Len(found) |-> <<found[i], rows[found[i]].vd>>]
        remaining_indices ==
            SelectSeq(missing_indices,
                      LAMBDA idx : \A j \in 1..Len(found) : found[j] # idx)
    IN  IF remaining_indices = <<>> THEN results
        ELSE IF valid(before_date) /\ valid(after_date)
             THEN results \o valid_pairs(between_bounds(remaining_indices,
                                             before_date, after_date, order))
        ELSE IF valid(before_date)
             THEN results \o valid_pairs(from_before(remaining_indices, before_date, order))
        ELSE IF valid(after_date)
             THEN results \o valid_pairs(from_after(remaining_indices, after_date, order))
        ELSE results \o valid_pairs(from_any_valid(df_dates, remaining_indices, order))

(***************************************************************************)
(* date_correction, Step 4: runs of consecutive rows without a valid date. *)
(***************************************************************************)
\* a variant of lines 911-917 without the is_empty_row test of line 913
remaining_invalid_with_blank_rows(rows, corrected_dates) ==
    SelectSeq([i \in 1..Len(rows) |-> i],
              LAMBDA idx : ~is_valid_date(corrected_dates[idx]))

\* lines 911-917: the non-blank rows whose date is not valid
remaining_invalid(rows, corrected_dates) ==
    SelectSeq([i \in 1..Len(rows) |-> i],
              LAMBDA idx : ~is_empty_row(rows[idx]) /\ ~is_valid_date(corrected_dates[idx]))

\* lines 920-932: split into groups of consecutive indices
RECURSIVE backtrack_groups(_, _, _)
backtrack_groups(invalid, i, groups) ==
    IF i > Len(invalid) THEN groups
    ELSE LET g == Len(groups)
         IN  IF g > 0 /\ invalid[i] = groups[g][Len(groups[g])] + 1
             THEN backtrack_groups(invalid, i + 1,
                                   [groups EXCEPT ![g] = Append(@, invalid[i])])
             ELSE backtrack_groups(invalid, i + 1, Append(groups, <<invalid[i]>>))

\* lines 936-966: the value dates of the group, judged against the dates as
\* they stand before any of them is applied
group_value_dates(rows, vcol, order, corrected_dates, group) ==
    [i \in 1..Len(corrected_dates) |->
        IF (\E j \in 1..Len(group) : group[j] = i)
           /\ vcol /\ rows[i].vd # EMPTY /\ valid(parse_custom_date(rows[i].vd))
        THEN LET prev_date == prev_valid(corrected_dates, i)
                 next_date == next_valid(corrected_dates, i)
             IN  IF same_above_below(prev_date, next_date) THEN prev_date
                 ELSE IF is_date_in_order(parse_custom_date(rows[i].vd),
                                          prev_date, next_date, order)
                      THEN parse_custom_date(rows[i].vd)
                      ELSE corrected_dates[i]
        ELSE corrected_dates[i]]

\* lines 973-992: rows of the group between two equal dates take that date;
\* st = [dates, left] (left: the indices still without a date)
RECURSIVE same_neighbour_fill(_, _, _)
same_neighbour_fill(remaining_in_group, i, st) ==
    IF i > Len(remaining_in_group) THEN st
    ELSE LET idx == remaining_in_group[i]
             prev_date == prev_valid(st.dates, idx)
             next_date == next_valid(st.dates, idx)
         IN  IF same_above_below(prev_date, next_date)
             THEN same_neighbour_fill(remaining_in_group, i + 1,
                      [dates |-> [st.dates EXCEPT ![idx] = prev_date], left |-> st.left])
             ELSE same_neighbour_fill(remaining_in_group, i + 1,
                      [dates |-> st.dates, left |-> Append(st.left, idx)])

\* lines 999-1020: the backtracking results, each checked against its neighbours
RECURSIVE apply_backtrack(_, _, _)
apply_backtrack(backtrack_dates, i, corrected_dates) ==
    IF i > Len(backtrack_dates) THEN corrected_dates
    ELSE LET row_idx  == backtrack_dates[i][1]
             new_date == backtrack_dates[i][2]
             prev_date == prev_valid(corrected_dates, row_idx)
             next_date == next_valid(corrected_dates, row_idx)
         IN  IF ~is_valid_date(new_date)
             THEN apply_backtrack(backtrack_dates, i + 1, corrected_dates)
             ELSE apply_backtrack(backtrack_dates, i + 1,
                      [corrected_dates EXCEPT ![row_idx] =
                          IF same_above_below(prev_date, next_date)
                          THEN prev_date ELSE new_date])

\* lines 934-1020: one group
repair_group(rows, vcol, order, corrected_dates, group) ==
    LET with_values == group_value_dates(rows, vcol, order, corrected_dates, group)
        remaining_in_group ==
            SelectSeq(group, LAMBDA idx : ~is_valid_date(with_values[idx]))
        filled == same_neighbour_fill(remaining_in_group, 1,
                                      [dates |-> with_values, left |-> <<>>])
    IN  IF filled.left = <<>> THEN filled.dates
        ELSE apply_backtrack(
                 create_date_list_through_backtracking(dates_of(rows), rows, vcol,
                                                       filled.left, order),
                 1, filled.dates)

\* lines 910-1022: all groups, in row order
RECURSIVE repair_groups(_, _, _, _, _, _)
repair_groups(rows, vcol, order, groups, g, corrected_dates) ==
    IF g > Len(groups) THEN corrected_dates
    ELSE repair_groups(rows, vcol, order, groups, g + 1,
                       repair_group(rows, vcol, order, corrected_dates, groups[g]))

run_repair(rows, vcol, order) ==
    repair_groups(rows, vcol, order,
                  backtrack_groups(remaining_invalid(rows, dates_of(rows)), 1, <<>>),
                  1, dates_of(rows))

(***************************************************************************)
(* date_correction, final verification pass (lines 1024-1076).             *)
(***************************************************************************)
\* a variant of lines 1049-1074 without the same-date rule of 1051-1054
final_fix_without_same_date(current_date, prev_date, next_date, order) ==
    IF order = "ascending"
    THEN IF valid(prev_date) THEN strftime(dt(prev_date) + 1) ELSE current_date
    ELSE IF valid(next_date) THEN strftime(dt(next_date) + 1) ELSE current_date

\* lines 1049-1074: the replacement of a date found out of order
final_fix(current_date, prev_date, next_date, order) ==
    IF same_above_below(prev_date, next_date) THEN prev_date
    ELSE IF order = "ascending"
         THEN IF valid(prev_date) THEN strftime(dt(prev_date) + 1) ELSE current_date
         ELSE IF valid(next_date) THEN strftime(dt(next_date) + 1) ELSE current_date

RECURSIVE final_sweep(_, _, _, _)
final_sweep(rows, order, idx, corrected_dates) ==
    IF idx > Len(rows) THEN corrected_dates
    ELSE LET current_date == corrected_dates[idx]
             prev_date == prev_valid(corrected_dates, idx)
             next_date == next_valid(corrected_dates, idx)
         IN  IF is_empty_row(rows[idx]) \/ current_date = EMPTY
                \/ ~is_valid_date(current_date)
                \/ is_date_in_order(current_date, prev_date, next_date, order)
             THEN final_sweep(rows, order, idx + 1, corrected_dates)
             ELSE final_sweep(rows, order, idx + 1,
                      [corrected_dates EXCEPT ![idx] =
                          final_fix(current_date, prev_date, next_date, order)])

(***************************************************************************)
(* fix_chronological_year_issues (lines 1086-1212).                        *)
(***************************************************************************)
\* lines 1101-1147: the order voted over all valid dates (duplicates kept)
year_pass_order(dates) == order_vote(SelectSeq(dates, is_valid_date))

\* a variant of lines 1194-1204 without the limit of 5 years of line 1197
year_fixed_without_limit(row, vcol, current_date, prev_date, next_date, order) ==
    LET day == current_date[2]  month == current_date[3]  year == current_date[4]
        from_value == DMY(day, month, row.vd[4])
        from_prev  == DMY(day, month, prev_date[4])
    IN  IF vcol /\ row.vd # EMPTY /\ is_valid_date(row.vd)
           /\ row.vd[4] # year
           /\ is_date_in_order(from_value, prev_date, next_date, order)
        THEN from_value
        ELSE IF order = "ascending" /\ prev_date # EMPTY
                /\ year < prev_date[4]
                /\ is_date_in_order(from_prev, prev_date, next_date, order)
             THEN from_prev
             ELSE current_date

\* lines 1175-1204: the date of one row after the year check
year_fixed(row, vcol, current_date, prev_date, next_date, order) ==
    LET day == current_date[2]  month == current_date[3]  year == current_date[4]
        from_value == DMY(day, month, row.vd[4])
        from_prev  == DMY(day, month, prev_date[4])
    IN  IF vcol /\ row.vd # EMPTY /\ is_valid_date(row.vd)
           /\ row.vd[4] # year
           /\ is_date_in_order(from_value, prev_date, next_date, order)
        THEN from_value
        ELSE IF order = "ascending" /\ prev_date # EMPTY
                /\ year < prev_date[4] /\ Abs(year - prev_date[4]) <= 5
                /\ is_date_in_order(from_prev, prev_date, next_date, order)
             THEN from_prev
             ELSE current_date

\* lines 1150-1204: rows idx..n
RECURSIVE year_pass(_, _, _, _, _)
year_pass(rows, vcol, order, idx, corrected_dates) ==
    IF idx > Len(rows) THEN corrected_dates
    ELSE IF ~is_valid_date(corrected_dates[idx])
         THEN year_pass(rows, vcol, order, idx + 1, corrected_dates)
    ELSE year_pass(rows, vcol, order, idx + 1,
             [corrected_dates EXCEPT ![idx] =
                 year_fixed(rows[idx], vcol, corrected_dates[idx],
                            prev_valid(corrected_dates, idx),
                            next_valid(corrected_dates, idx), order)])

fix_chronological_year_issues(rows, vcol) ==
    IF Len(SelectSeq(dates_of(rows), is_valid_date)) < 2 THEN rows
    ELSE with_dates(rows, year_pass(rows, vcol, year_pass_order(dates_of(rows)),
                                    1, dates_of(rows)))

(***************************************************************************)
(* rotate_if_descending (lines 1214-1226).                                 *)
(***************************************************************************)
\* a variant of line 1218 that reverses the date column alone
reversed_dates_only(rows) ==
    [k \in 1..Len(rows) |-> [rows[k] EXCEPT !.xn = rows[Len(rows) + 1 - k].xn]]

\* a variant of line 1218 that also drops the rows that are blank
reversed_rows_without_blank(rows) ==
    SelectSeq([k \in 1..Len(rows) |-> rows[Len(rows) + 1 - k]],
              LAMBDA row : ~is_empty_row(row))

\* line 1218: df.iloc[::-1].reset_index(drop=True)
reversed_rows(rows) == [k \in 1..Len(rows) |-> rows[Len(rows) + 1 - k]]

\* a variant of lines 1217-1223 that never rotates
never_rotated(rows, order) == rows

rotate_if_descending(rows, order) ==
    IF order = "descending" THEN reversed_rows(rows) ELSE rows

NoDates == [rows |-> <<>>, vcol |-> FALSE]

NoSnapshot == [parsed |-> <<>>, pre_rotate |-> <<>>, pre_order |-> "ascending",
               first |-> NoDates, first_order |-> "ascending", raised |-> ""]

\* the chronology variables while the reconciler runs
DatesIdle ==
    /\ table = NoDates
    /\ date_order = "ascending"
    /\ new_date_order = "ascending"
    /\ iteration = 0
    /\ made_correction = FALSE
    /\ dpc = "idle"
    /\ run = 0
    /\ original = NoDates
    /\ snapshot = NoSnapshot

\* the reconciler variables while the chronology repair runs
ReconcileIdle ==
    /\ df = [cols |-> {}, n |-> 0, Debits |-> <<>>, Credits |-> <<>>, Balance |-> <<>>]
    /\ df_diff = NoTable
    /\ all_correct = FALSE
    /\ adjusted = FALSE
    /\ rpc = "idle"

\* the token variables while a whole table is processed
TokensIdle ==
    /\ cell = <<>>
    /\ called = "idle"
    /\ returned = <<>>

(***************************************************************************)
(* process_all_dates (lines 1295-1354), in its successive steps.           *)
(***************************************************************************)
\* lines 1309-1316: every date column goes through parse_custom_date
ParseDateColumns ==
    /\ dpc = "start"
    /\ table' = [table EXCEPT !.rows =
                    [i \in 1..Len(table.rows) |->
                        [table.rows[i] EXCEPT !.xn = parse_custom_date(@),
                                              !.vd = parse_custom_date(@)]]]
    /\ dpc' = "date_correction"
    /\ UNCHANGED <<date_order, new_date_order, iteration, made_correction,
                   run, original, snapshot, recVars, tokenVars>>

\* date_correction lines 674-694: parse 'XN Date' (blank rows get ""), then
\* infer the order
ParseAndInferOrder ==
    /\ dpc = "date_correction"
    /\ LET parsed_dates == [i \in 1..Len(table.rows) |->
                               IF is_empty_row(table.rows[i]) THEN EMPTY
                               ELSE parse_custom_date(table.rows[i].xn)]
       IN  /\ table' = [table EXCEPT !.rows = with_dates(@, parsed_dates)]
           /\ date_order' = get_date_order(parsed_dates)
           /\ snapshot' = IF run = 1 THEN [snapshot EXCEPT !.parsed = parsed_dates]
                          ELSE snapshot
    /\ iteration' = 0
    /\ made_correction' = FALSE
    /\ dpc' = "local_loop"
    /\ UNCHANGED <<new_date_order, run, original, recVars, tokenVars>>

\* date_correction lines 699-908: one pass of the local repair loop
LocalRepairPass ==
    /\ dpc = "local_loop"
    /\ iteration < 5
    /\ LET st == local_pass(table.rows, table.vcol, date_order, 1,
                            [dates |-> dates_of(table.rows), made |-> FALSE])
       IN  /\ table' = [table EXCEPT !.rows = with_dates(@, st.dates)]
           /\ made_correction' = st.made
           /\ iteration' = iteration + 1
           /\ dpc' = IF st.made /\ iteration + 1 < 5 THEN "local_loop" ELSE "run_repair"
    /\ UNCHANGED <<date_order, new_date_order, run, original, snapshot, recVars, tokenVars>>

\* date_correction lines 910-1022: runs of rows without a valid date
RunRepair ==
    /\ dpc = "run_repair"
    /\ table' = [table EXCEPT !.rows =
                    with_dates(@, run_repair(table.rows, table.vcol, date_order))]
    /\ dpc' = "final_sweep"
    /\ UNCHANGED <<date_order, new_date_order, iteration, made_correction,
                   run, original, snapshot, recVars, tokenVars>>

\* date_correction lines 1024-1082: the final sweep and the final order
FinalSweep ==
    /\ dpc = "final_sweep"
    /\ LET swept == final_sweep(table.rows, date_order, 1, dates_of(table.rows))
       IN  /\ table' = [table EXCEPT !.rows = with_dates(@, swept)]
           /\ date_order' = get_date_order(swept)
           /\ snapshot' = [snapshot EXCEPT !.pre_rotate = with_dates(table.rows, swept),
                                           !.pre_order = get_date_order(swept)]
    /\ dpc' = "rotate"
    /\ UNCHANGED <<new_date_order, iteration, made_correction, run, original, recVars, tokenVars>>

\* lines 1323 and 1214-1226: rotate_if_descending
Rotate ==
    /\ dpc = "rotate"
    /\ table' = [table EXCEPT !.rows = rotate_if_descending(@, date_order)]
    /\ new_date_order' = IF date_order = "descending"
                         THEN get_date_order(dates_of(table'.rows))
                         ELSE new_date_order
    /\ date_order' = IF date_order = "descending" THEN "ascending" ELSE date_order
    /\ dpc' = "year_fix"
    /\ UNCHANGED <<iteration, made_correction, run, original, snapshot, recVars, tokenVars>>

\* lines 1326 and 1086-1212: fix_chronological_year_issues
YearFix ==
    /\ dpc = "year_fix"
    /\ table' = [table EXCEPT !.rows = fix_chronological_year_issues(@, table.vcol)]
    /\ dpc' = "drop_value_date"
    /\ UNCHANGED <<date_order, new_date_order, iteration, made_correction,
                   run, original, snapshot, recVars, tokenVars>>

\* lines 1328-1338: the value-date column is dropped and the table returned
DropValueDate ==
    /\ dpc = "drop_value_date"
    /\ table' = [rows |-> [i \in 1..Len(table.rows) |->
                              [table.rows[i] EXCEPT !.vd = EMPTY]],
                 vcol |-> FALSE]
    /\ dpc' = "done"
    /\ snapshot' = IF run = 1
                   THEN [snapshot EXCEPT !.first = table', !.first_order = date_order]
                   ELSE snapshot
    /\ UNCHANGED <<date_order, new_date_order, iteration, made_correction,
                   run, original, recVars, tokenVars>>

\* process_all_dates called again, on the table it returned
RunAgain ==
    /\ dpc = "done"
    /\ run = 1
    /\ run' = 2
    /\ dpc' = "start"
    /\ UNCHANGED <<table, date_order, new_date_order, iteration, made_correction,
                   original, snapshot, recVars, tokenVars>>

(***************************************************************************)
(* The exception handlers of the chronology repair.  Every statement of a  *)
(* try body can raise (MemoryError at an allocation, for one); the handler *)
(* returns the name df as it is bound at that moment.  The writes to df    *)
(* are the column assignments of lines 691, 904, 1022, 1076 and 1316, so   *)
(* df holds, at any statement, the table left by the last completed step.  *)
(* The handlers are followed in the first call of process_all_dates.       *)
(***************************************************************************)
\* lines 1315-1316 interrupted: no date column written yet, or one of them
columns_parsed_so_far(rows) ==
    { rows,
      [i \in 1..Len(rows) |-> [rows[i] EXCEPT !.xn = parse_custom_date(@)]],
      [i \in 1..Len(rows) |-> [rows[i] EXCEPT !.vd = parse_custom_date(@)]] }

\* date_correction lines 1084-1085: return df, 'ascending'; process_all_dates
\* goes on with line 1322
DateCorrectionRaises ==
    /\ dpc \in {"date_correction", "local_loop", "run_repair", "final_sweep"}
    /\ run = 1
    /\ date_order' = "ascending"
    /\ snapshot' = [snapshot EXCEPT !.raised = "date_correction",
                                    !.pre_rotate = table.rows,
                                    !.pre_order = "ascending"]
    /\ dpc' = "rotate"
    /\ UNCHANGED <<table, new_date_order, iteration, made_correction, run, original,
                   recVars, tokenVars>>

\* process_all_dates lines 1354-1355: return df
ProcessAllDatesRaises ==
    /\ dpc \in {"start", "rotate", "year_fix", "drop_value_date"}
    /\ run = 1
    /\ IF dpc = "start"
       THEN \E rows \in columns_parsed_so_far(table.rows) :
                table' = [table EXCEPT !.rows = rows]
       ELSE table' = table
    /\ snapshot' = [snapshot EXCEPT !.raised = "process_all_dates"]
    /\ dpc' = "done"
    /\ UNCHANGED <<date_order, new_date_order, iteration, made_correction, run,
                   original, recVars, tokenVars>>

(***************************************************************************)
(* Input tables of the chronology repair.                                  *)
(***************************************************************************)
\* Tables of up to MaxWideLen rows draw their dates from WideTokens and may
\* carry a value-date column; longer tables, up to MaxLen rows, draw them
\* from DateTokens and carry none.
MaxLen == 5

MaxWideLen == 3

DateTokens == {EMPTY, DMY(31, 12, 2023), <<"ymd", 2024, 1, 1>>, DMY(2, 1, 2024)}

WideTokens == DateTokens \cup {DMY(2, 1, 2023)}

ValueTokens == {EMPTY, DMY(1, 1, 2024)}

BlankRow == [xn |-> EMPTY, vd |-> EMPTY, payload |-> EMPTY]

\* the cells of one row: a blank row, or a date token, a value-date token
\* and a payload
RowShapes(tokens, vcol) ==
    {<<"blank">>} \cup
    { <<"row", x, v>> : x \in tokens, v \in (IF vcol THEN ValueTokens ELSE {EMPTY}) }

\* the payload of row i is <<i>>: it tells the rows apart
MakeRows(shapes) ==
    [i \in 1..Len(shapes) |->
        IF shapes[i][1] = "blank" THEN BlankRow
        ELSE [xn |-> shapes[i][2], vd |-> shapes[i][3], payload |-> <<i>>]]

InitRepair ==
    /\ \E n \in 1..MaxLen, vcol \in BOOLEAN :
         /\ vcol => n <= MaxWideLen
         /\ \E shapes \in [1..n -> RowShapes(IF n <= MaxWideLen THEN WideTokens
                                                ELSE DateTokens, vcol)] :
                table = [rows |-> MakeRows(shapes), vcol |-> vcol]
    /\ original = table
    /\ date_order = "ascending"
    /\ new_date_order = "ascending"
    /\ iteration = 0
    /\ made_correction = FALSE
    /\ dpc = "start"
    /\ run = 1
    /\ snapshot = NoSnapshot
    /\ ReconcileIdle
    /\ TokensIdle

NextRepair ==
    \/ ParseDateColumns
    \/ ParseAndInferOrder
    \/ LocalRepairPass
    \/ RunRepair
    \/ FinalSweep
    \/ Rotate
    \/ YearFix
    \/ DropValueDate
    \/ RunAgain

SpecRepair == InitRepair /\ [][NextRepair]_vars

InitReconcile ==
    /\ \E n \in 0..MaxRows, c \in SUBSET Roles :
         \E d \in ColumnOf("Debits" \in c, DebitCells, n),
            k \in ColumnOf("Credits" \in c, CreditCells, n),
            b \in ColumnOf("Balance" \in c, BalanceCells, n) :
              df = [cols |-> c, n |-> n, Debits |-> d, Credits |-> k, Balance |-> b]
    /\ df_diff = NoTable
    /\ all_correct = FALSE
    /\ adjusted = FALSE
    /\ rpc = "start"
    /\ DatesIdle
    /\ TokensIdle

NextReconcile ==
    \/ RecPrepare
    \/ RecComputeDifferences
    \/ RecAdjust
    \/ RecNoAdjust
    \/ RecVerify

SpecReconcile == InitReconcile /\ [][NextReconcile]_vars

\* Tables whose dates lie 4 days and 5 months apart, for the rules of the
\* repair that depend on the distance between the neighbours of a row.
MaxSpacedLen == 3

SpacedTokens == {EMPTY, DMY(1, 1, 2024), DMY(5, 1, 2024), DMY(10, 6, 2024)}

InitSpaced ==
    /\ \E n \in 1..MaxSpacedLen, vcol \in BOOLEAN :
         \E shapes \in [1..n -> RowShapes(SpacedTokens, vcol)] :
             table = [rows |-> MakeRows(shapes), vcol |-> vcol]
    /\ original = table
    /\ date_order = "ascending"
    /\ new_date_order = "ascending"
    /\ iteration = 0
    /\ made_correction = FALSE
    /\ dpc = "start"
    /\ run = 1
    /\ snapshot = NoSnapshot
    /\ ReconcileIdle
    /\ TokensIdle

SpecSpaced == InitSpaced /\ [][NextRepair]_vars

\* fix_chronological_year_issues on its own: tables of 'DD/MM/YYYY' dates
\* whose years lie 1 and 7 years apart, one of them a 29 February, with or
\* without a value-date column.
MaxYearLen == 3

YearTokens == {EMPTY, DMY(5, 1, 2024), DMY(29, 2, 2024), DMY(10, 6, 2023),
               DMY(10, 6, 2017)}

YearValueTokens == {EMPTY, DMY(1, 1, 2024), DMY(1, 1, 2023)}

YearRows(n, vcol) ==
    [1..n -> { [xn |-> x, vd |-> v, payload |-> <<0>>] :
                  x \in YearTokens,
                  v \in (IF vcol THEN YearValueTokens ELSE {EMPTY}) }]

InitYearPass ==
    /\ \E n \in 1..MaxYearLen, vcol \in BOOLEAN :
         \E rows \in YearRows(n, vcol) : table = [rows |-> rows, vcol |-> vcol]
    /\ original = table
    /\ date_order = "ascending"
    /\ new_date_order = "ascending"
    /\ iteration = 0
    /\ made_correction = FALSE
    /\ dpc = "year_fix"
    /\ run = 1
    /\ snapshot = NoSnapshot
    /\ ReconcileIdle
    /\ TokensIdle

NextYearPass ==
    \/ YearFix
    \/ DropValueDate

SpecYearPass == InitYearPass /\ [][NextYearPass]_vars

\* one call of process_all_dates, with its exception handlers
NextFaults ==
    \/ ParseDateColumns
    \/ ParseAndInferOrder
    \/ LocalRepairPass
    \/ RunRepair
    \/ FinalSweep
    \/ Rotate
    \/ YearFix
    \/ DropValueDate
    \/ DateCorrectionRaises
    \/ ProcessAllDatesRaises

SpecFaults == InitRepair /\ [][NextFaults]_vars

(***************************************************************************)
(* clean_main (csv_cleaning.py lines 1365-1436): the cleaned table goes    *)
(* through process_all_dates, step_ensure_required_columns and             *)
(* calculate_difference_and_verify, and the adjusted balances are written  *)
(* back.  A row of the table carries, as its payload,                      *)
(*   <<id, label, debit, credit, balance>>                                 *)
(* id: its position in the input; label: its row label (pandas index);     *)
(* debit, credit, balance: its amount cells, NaN or <<cents>>.  Every row  *)
(* has a narration.                                                        *)
(***************************************************************************)
MaxPipelineLen == 3

PipelineDates == {DMY(1, 1, 2024), DMY(2, 1, 2024)}

\* the parsed Debits and Credits cells of a row
PipelineMovements == {<<NaN, NaN>>, <<NaN, <<100>>>>, <<<<100>>, NaN>>}

PipelineBalances == {NaN, <<100>>}

label_of(row) == row.payload[2]

debit_of(row) == row.payload[3]

credit_of(row) == row.payload[4]

balance_of(row) == row.payload[5]

\* lines 1273-1276: round(-1 * float(x), 2) if pd.notna(x) else ""
negated(val) == IF val = NaN THEN NaN ELSE <<0 - val[1]>>

\* lines 1311-1315: NaN, "", "0", "0.0", "0.00" (no table of the pipeline
\* holds a zero debit, which line 1275 would turn into -0.0)
is_empty_amount(val) == val = NaN \/ val = <<0>>

\* lines 1318-1326: a row with a narration and no amount
remove_metadata_row(row) ==
    /\ is_empty_amount(debit_of(row))
    /\ is_empty_amount(credit_of(row))
    /\ is_empty_amount(balance_of(row))

\* line 1249 (reset_index) and lines 1273-1276: labels are positions,
\* debits are negated
with_labels_and_signs(rows) ==
    [k \in 1..Len(rows) |->
        [rows[k] EXCEPT !.payload[2] = k, !.payload[3] = negated(@)]]

\* line 1328: df[~df.apply(_remove_metadata_row, axis=1)]; the rows kept
\* keep their labels
without_metadata_rows(rows) ==
    SelectSeq(rows, LAMBDA row : ~remove_metadata_row(row))

\* step_ensure_required_columns (lines 1257-1335)
step_ensure_required_columns(rows) ==
    without_metadata_rows(with_labels_and_signs(rows))

\* calculate_difference_and_verify (lines 878-1062) as a function of the
\* three columns
reconciled(Debits, Credits, Balance) ==
    LET n == Len(Balance)
        deb == [i \in 1..n |-> <<round_to_2(Debits[i])>>]
        cre == [i \in 1..n |-> <<round_to_2(Credits[i])>>]
        bal == [i \in 1..n |-> <<round_to_2(Balance[i])>>]
        first == [i \in 1..n |->
                     IF i = 1 THEN 0
                     ELSE difference(round_to_2(bal[i-1]), round_to_2(cre[i]),
                                     round_to_2(deb[i]), round_to_2(bal[i]))]
        adjust == all_differences_in_range(first) /\ n > 1
        adj == adjusted_balances([n |-> n, Debits |-> deb, Credits |-> cre,
                                  Balance_Adjusted |-> bal])
        final == [i \in 1..n |->
                     IF i = 1 THEN first[1]
                     ELSE difference(adj[i-1], round_to_2(cre[i]),
                                     round_to_2(deb[i]), adj[i])]
        Difference == IF adjust THEN final ELSE first
    IN  [Difference |-> Difference,
         Balance_Adjusted |-> IF adjust THEN [i \in 1..n |-> <<adj[i]>>] ELSE bal,
         adjusted |-> adjust,
         all_correct |-> non_zero_diffs(Difference) = {}]

\* line 1429: cleaned_df['Balance'] = df_with_diff['Balance_Adjusted'].  The
\* assignment of a Series aligns on the row labels: a row receives the
\* entry that carries its label, NaN when there is none.
assigned_by_label(rows, Balance_Adjusted) ==
    [k \in 1..Len(rows) |->
        [rows[k] EXCEPT !.payload[5] =
            IF label_of(rows[k]) \in 1..Len(Balance_Adjusted)
            THEN Balance_Adjusted[label_of(rows[k])]
            ELSE NaN]]

\* clean_bank_statement lines 1358-1359, after process_all_dates
EnsureRequiredColumns ==
    /\ dpc = "done"
    /\ rpc = "idle"
    /\ table' = [table EXCEPT !.rows = step_ensure_required_columns(@)]
    /\ dpc' = "cleaned"
    /\ UNCHANGED <<date_order, new_date_order, iteration, made_correction,
                   run, original, snapshot, recVars, tokenVars>>

\* clean_main lines 1414-1421: the call of calculate_difference_and_verify
CleanMainReconcile ==
    /\ dpc = "cleaned"
    /\ rpc = "idle"
    /\ Len(table.rows) > 0
    /\ df' = [cols |-> Roles, n |-> Len(table.rows),
              Debits |-> [k \in 1..Len(table.rows) |-> debit_of(table.rows[k])],
              Credits |-> [k \in 1..Len(table.rows) |-> credit_of(table.rows[k])],
              Balance |-> [k \in 1..Len(table.rows) |-> balance_of(table.rows[k])]]
    /\ rpc' = "start"
    /\ UNCHANGED <<df_diff, all_correct, adjusted, dateVars, tokenVars>>

\* clean_main lines 1424-1436: the adjusted balances are written back and
\* the table is saved
WriteBack ==
    /\ dpc = "cleaned"
    /\ rpc = "done"
    /\ table' = IF adjusted
                THEN [table EXCEPT !.rows =
                         assigned_by_label(@, df_diff.Balance_Adjusted)]
                ELSE table
    /\ dpc' = "saved"
    /\ UNCHANGED <<date_order, new_date_order, iteration, made_correction,
                   run, original, snapshot, recVars, tokenVars>>

InitPipeline ==
    /\ \E n \in 1..MaxPipelineLen :
         \E x \in [1..n -> PipelineDates], m \in [1..n -> PipelineMovements],
            b \in [1..n -> PipelineBalances] :
             table = [rows |-> [i \in 1..n |->
                                  [xn |-> x[i], vd |-> EMPTY,
                                   payload |-> <<i, i, m[i][1], m[i][2], b[i]>>]],
                      vcol |-> FALSE]
    /\ original = table
    /\ date_order = "ascending"
    /\ new_date_order = "ascending"
    /\ iteration = 0
    /\ made_correction = FALSE
    /\ dpc = "start"
    /\ run = 1
    /\ snapshot = NoSnapshot
    /\ ReconcileIdle
    /\ TokensIdle

NextPipeline ==
    \/ ParseDateColumns
    \/ ParseAndInferOrder
    \/ LocalRepairPass
    \/ RunRepair
    \/ FinalSweep
    \/ Rotate
    \/ YearFix
    \/ DropValueDate
    \/ EnsureRequiredColumns
    \/ CleanMainReconcile
    \/ NextReconcile
    \/ WriteBack

SpecPipeline == InitPipeline /\ [][NextPipeline]_vars

\* The two table stages side by side: a behaviour is one call of
\* process_all_dates (and a second call on its result) or one call of
\* calculate_difference_and_verify.
InitStages == InitRepair \/ InitReconcile

NextStages == NextRepair \/ NextReconcile

SpecStages == InitStages /\ [][NextStages]_vars

(***************************************************************************)
(* Text.  A Python str is modelled as the sequence of its characters, each *)
(* a one-character string; None, NaN and "" are all the empty sequence.    *)
(***************************************************************************)
Digit == {"0", "1", "2", "3", "4", "5", "6", "7", "8", "9"}

LowerCase == <<"a", "b", "c", "d", "e", "f", "g", "h", "i", "j", "k", "l", "m",
               "n", "o", "p", "q", "r", "s", "t", "u", "v", "w", "x", "y", "z">>

UpperCase == <<"A", "B", "C", "D", "E", "F", "G", "H", "I", "J", "K", "L", "M",
               "N", "O", "P", "Q", "R", "S", "T", "U", "V", "W", "X", "Y", "Z">>

Letter == {LowerCase[i] : i \in 1..26} \cup {UpperCase[i] : i \in 1..26}

\* \s, as far as the tokens go
Space == {" "}

\* \w of the re module
WordChar == Digit \cup Letter \cup {"_"}

\* str.lower() and str.upper(), character by character
lower_char(c) ==
    IF \E i \in 1..26 : UpperCase[i] = c
    THEN LowerCase[CHOOSE i \in 1..26 : UpperCase[i] = c] ELSE c

upper_char(c) ==
    IF \E i \in 1..26 : LowerCase[i] = c
    THEN UpperCase[CHOOSE i \in 1..26 : LowerCase[i] = c] ELSE c

lower(text) == [i \in 1..Len(text) |-> lower_char(text[i])]

upper(text) == [i \in 1..Len(text) |-> upper_char(text[i])]

\* re.sub(r'[^...]', '', text): keep the characters of a class
keep_chars(text, class) == SelectSeq(text, LAMBDA c : c \in class)

\* re.sub(r'[...]', '', text) and str.replace(c, ''): drop the characters
\* of a class
drop_chars(text, class) == SelectSeq(text, LAMBDA c : c \notin class)

\* str.strip()
RECURSIVE lstrip(_)
lstrip(text) ==
    IF text # <<>> /\ Head(text) \in Space THEN lstrip(Tail(text)) ELSE text

RECURSIVE rstrip(_)
rstrip(text) ==
    IF text # <<>> /\ text[Len(text)] \in Space
    THEN rstrip(SubSeq(text, 1, Len(text) - 1)) ELSE text

strip(text) == rstrip(lstrip(text))

\* c in text
contains(text, c) == \E i \in 1..Len(text) : text[i] = c

\* text.startswith(prefix), at position i
matches_at(text, i, word) ==
    /\ i + Len(word) - 1 <= Len(text)
    /\ \A j \in 1..Len(word) : text[i + j - 1] = word[j]

\* int() of a string of decimal digits ('' gives 0 here; the callers test)
RECURSIVE int(_)
int(digits) ==
    IF digits = <<>> THEN 0
    ELSE 10 * int(SubSeq(digits, 1, Len(digits) - 1))
         + (CHOOSE v \in 0..9 : <<"0", "1", "2", "3", "4", "5", "6", "7", "8", "9">>[v + 1]
                                    = digits[Len(digits)])

\* 10 ** d
RECURSIVE pow10(_)
pow10(d) == IF d = 0 THEN 1 ELSE 10 * pow10(d - 1)

(***************************************************************************)
(* Numbers of the amount functions.  A float is the pair <<n, d>>, the     *)
(* decimal n / 10^d with no trailing zero in n when d > 0; NaN and the ""  *)
(* that extract_amount and parse_balance return are both <<>>.             *)
(***************************************************************************)
RECURSIVE Float(_, _)
Float(n, d) == IF d > 0 /\ n % 10 = 0 THEN Float(n \div 10, d - 1) ELSE <<n, d>>

negative(x) == Float(-x[1], x[2])

\* float(raw) of a string of digits and dots with an optional leading '-':
\* ValueError unless there is at most one dot and at least one digit
float_raises(raw) ==
    LET body == IF raw # <<>> /\ Head(raw) = "-" THEN Tail(raw) ELSE raw
    IN  \/ keep_chars(body, Digit) = <<>>
        \/ Len(keep_chars(body, {"."})) > 1
        \/ keep_chars(body, Digit \cup {"."}) # body

RECURSIVE after_last(_, _)
after_last(text, c) ==
    IF text = <<>> \/ text[Len(text)] = c THEN <<>>
    ELSE Append(after_last(SubSeq(text, 1, Len(text) - 1), c), text[Len(text)])

float(raw) ==
    LET neg  == raw # <<>> /\ Head(raw) = "-"
        body == IF neg THEN Tail(raw) ELSE raw
        d    == IF contains(body, ".") THEN Len(after_last(body, ".")) ELSE 0
        x    == Float(int(keep_chars(body, Digit)), d)
    IN  IF neg THEN negative(x) ELSE x

\* round(x, 2); half_up decides a value that lies halfway in decimal, where
\* the binary float decides in Python
round_2(x, half_up) ==
    IF x[2] <= 2 THEN x
    ELSE LET unit == pow10(x[2] - 2)
             q == x[1] \div unit
             r == x[1] - q * unit
         IN  IF 2 * r > unit \/ (2 * r = unit /\ half_up)
             THEN Float(q + 1, 2) ELSE Float(q, 2)

(***************************************************************************)
(* The amount functions of csv_cleaning.py.  An exception is the value     *)
(* Raised, which a try/except turns into the handler's value.              *)
(***************************************************************************)
Raised == <<"raised">>

\* the same code without the try/except around it
without_except(v, handler) == v

try_except(v, handler) == IF v = Raised THEN handler ELSE v

float_or_raise(raw) == IF float_raises(raw) THEN Raised ELSE float(raw)

\* re.sub(r'\b(cr|dr)\b', '', text, flags=re.IGNORECASE): a two-letter word
\* cr or dr goes only where no word character touches it on either side
RECURSIVE remove_cr_dr_words_from(_, _)
remove_cr_dr_words_from(text, i) ==
    IF i > Len(text) THEN <<>>
    ELSE IF /\ \/ matches_at(lower(text), i, <<"c", "r">>)
               \/ matches_at(lower(text), i, <<"d", "r">>)
            /\ i = 1 \/ text[i - 1] \notin WordChar
            /\ i + 2 > Len(text) \/ text[i + 2] \notin WordChar
         THEN remove_cr_dr_words_from(text, i + 2)
         ELSE <<text[i]>> \o remove_cr_dr_words_from(text, i + 1)

remove_cr_dr_words(text) == remove_cr_dr_words_from(text, 1)

\* re.sub(r'(cr|dr)', '', text, flags=re.I): every cr or dr goes, wherever
RECURSIVE remove_cr_dr_from(_, _)
remove_cr_dr_from(text, i) ==
    IF i > Len(text) THEN <<>>
    ELSE IF \/ matches_at(lower(text), i, <<"c", "r">>)
            \/ matches_at(lower(text), i, <<"d", "r">>)
         THEN remove_cr_dr_from(text, i + 2)
         ELSE <<text[i]>> \o remove_cr_dr_from(text, i + 1)

remove_cr_dr(text) == remove_cr_dr_from(text, 1)

\* re.sub(r'[:;]', '.', text)
colons_to_dots(text) ==
    [i \in 1..Len(text) |-> IF text[i] \in {":", ";"} THEN "." ELSE text[i]]

\* lines 257-263: the sign and the text without '-', '(' and ')'
is_negative_new(value) ==
    LET text == strip(value)
    IN  (text # <<>> /\ Head(text) = "-") \/ contains(text, "(")

unsigned_text(value) ==
    IF is_negative_new(value) THEN drop_chars(strip(value), {"-", "(", ")"})
    ELSE strip(value)

\* line 267
numeric_part(value) == keep_chars(unsigned_text(value), Digit \cup {"."})

\* lines 270-282
clean_text(value) ==
    keep_chars(drop_chars(colons_to_dots(remove_cr_dr_words(unsigned_text(value))),
                          {",", " "}),
               Digit \cup {"."})

\* line 294
digits_after_last_dot(value) ==
    Len(keep_chars(after_last(numeric_part(value), "."), Digit))

\* lines 299-312, before the sign: the decimal shift
shifted(value) ==
    LET digits_only == drop_chars(clean_text(value), {"."})
    IN  IF digits_only = <<>> THEN NaN
        ELSE IF digits_after_last_dot(value) = 1 THEN Float(int(digits_only), 1)
        ELSE IF digits_after_last_dot(value) >= 2 THEN Float(int(digits_only), 2)
        ELSE Float(int(digits_only), 0)

\* lines 319-323, before the sign: the text taken as it is
taken_as_is(value, half_up) ==
    LET result == float_or_raise(clean_text(value))
    IN  IF result = Raised THEN Raised ELSE round_2(result, half_up)

extract_amount_new_unguarded(value, half_up) ==
    IF strip(value) = <<>> \/ clean_text(value) = <<>> THEN NaN
    ELSE LET result == IF contains(numeric_part(value), ".") THEN shifted(value)
                       ELSE taken_as_is(value, half_up)
         IN  IF result = NaN \/ result = Raised THEN result
             ELSE IF is_negative_new(value) THEN negative(result) ELSE result

extract_amount_new(value, half_up) ==
    try_except(extract_amount_new_unguarded(value, half_up), NaN)

\* str.split('.')
RECURSIVE split_dots(_)
split_dots(raw) ==
    IF ~contains(raw, ".") THEN <<raw>>
    ELSE LET i == CHOOSE k \in 1..Len(raw) :
                      raw[k] = "." /\ \A j \in 1..(k - 1) : raw[j] # "."
         IN  <<SubSeq(raw, 1, i - 1)>> \o split_dots(SubSeq(raw, i + 1, Len(raw)))

RECURSIVE join(_)
join(parts) == IF parts = <<>> THEN <<>> ELSE Head(parts) \o join(Tail(parts))

\* lines 164-178 and 213-224: the dots of the first number of the text
regroup_dots(raw) ==
    LET parts == split_dots(raw)
        n == Len(parts)
    IN  IF n > 2
        THEN IF Len(parts[n]) = 3 THEN join(parts)
             ELSE join(SubSeq(parts, 1, n - 1)) \o <<".">> \o parts[n]
        ELSE IF n = 2 /\ Len(parts[2]) > 2
        THEN LET digits == parts[1] \o parts[2]
             IN  SubSeq(digits, 1, Len(digits) - 2) \o <<".">>
                 \o SubSeq(digits, Len(digits) - 1, Len(digits))
        ELSE raw

\* re.findall(r'[\d.]+', text)[0], and with minus re.findall(r'-?[\d.]+',
\* text)[0]: the first run of digits and dots, with the '-' right before it
first_number(text, minus) ==
    IF keep_chars(text, Digit \cup {"."}) = <<>> THEN <<>>
    ELSE LET a == CHOOSE k \in 1..Len(text) :
                      /\ text[k] \in Digit \cup {"."}
                      /\ \A j \in 1..(k - 1) : text[j] \notin Digit \cup {"."}
             b == CHOOSE k \in a..Len(text) :
                      /\ \A j \in a..k : text[j] \in Digit \cup {"."}
                      /\ k = Len(text) \/ text[k + 1] \notin Digit \cup {"."}
         IN  IF minus /\ a > 1 /\ text[a - 1] = "-"
             THEN SubSeq(text, a - 1, b) ELSE SubSeq(text, a, b)

extract_amount(value) ==
    LET text == strip(lower(value))
        nums == first_number(drop_chars(remove_cr_dr(text), {",", " "}), FALSE)
        amount == float_or_raise(regroup_dots(nums))
    IN  IF value = <<>> \/ nums = <<>> \/ amount = Raised THEN NaN
        ELSE IF contains(text, "-") THEN negative(amount) ELSE amount

parse_balance(value) ==
    LET text == upper(strip(value))
        nums == first_number(drop_chars(remove_cr_dr(text), {",", " "}), TRUE)
        amount == float_or_raise(regroup_dots(nums))
    IN  IF \/ text \in {<<>>, <<"N", "A", "N">>, <<"N", "O", "N", "E">>}
           \/ nums = <<>> \/ amount = Raised
        THEN NaN
        ELSE IF amount[1] < 0 THEN amount
        ELSE IF \E i \in 1..Len(text) : matches_at(text, i, <<"D", "R">>)
        THEN negative(amount) ELSE amount

(***************************************************************************)
(* The regular expressions of parse_custom_date are sequences of character *)
(* classes, each repeated between lo and hi times (or without upper limit) *)
(* and greedy: an item takes the longest run that lets the rest match.     *)
(***************************************************************************)
Rep(class, lo, hi) == [class |-> class, lo |-> lo, hi |-> hi, unbounded |-> FALSE]

Plus(class) == [class |-> class, lo |-> 1, hi |-> 1, unbounded |-> TRUE]

Star(class) == [class |-> class, lo |-> 0, hi |-> 0, unbounded |-> TRUE]

NoMatch == <<-1>>

\* the number of characters of the class that follow one another from pos
RECURSIVE run_length(_, _, _)
run_length(text, pos, class) ==
    IF pos <= Len(text) /\ text[pos] \in class
    THEN 1 + run_length(text, pos + 1, class) ELSE 0

\* the lengths the items take when the pattern matches at pos (to the end of
\* the text when to_end), NoMatch when it does not
RECURSIVE match_lengths(_, _, _, _)
match_lengths(items, text, pos, to_end) ==
    IF items = <<>>
    THEN IF to_end /\ pos # Len(text) + 1 THEN NoMatch ELSE <<>>
    ELSE LET item == Head(items)
             avail == run_length(text, pos, item.class)
             top == IF item.unbounded \/ avail < item.hi THEN avail ELSE item.hi
             fits == {k \in item.lo..top :
                         match_lengths(Tail(items), text, pos + k, to_end) # NoMatch}
         IN  IF fits = {} THEN NoMatch
             ELSE LET k == CHOOSE m \in fits : \A o \in fits : o <= m
                  IN  <<k>> \o match_lengths(Tail(items), text, pos + k, to_end)

\* re.match(pattern, text)
re_match(items, text, to_end) == match_lengths(items, text, 1, to_end)

RECURSIVE sum_before(_, _)
sum_before(lengths, i) ==
    IF i <= 1 THEN 0 ELSE lengths[i - 1] + sum_before(lengths, i - 1)

\* what the i-th item of a matched pattern holds
group(text, lengths, i) ==
    SubSeq(text, sum_before(lengths, i) + 1, sum_before(lengths, i) + lengths[i])

\* str.replace(old, new)
RECURSIVE replace_from(_, _, _, _)
replace_from(text, i, old, new) ==
    IF i > Len(text) THEN <<>>
    ELSE IF matches_at(text, i, old)
         THEN new \o replace_from(text, i + Len(old), old, new)
         ELSE <<text[i]>> \o replace_from(text, i + 1, old, new)

replace(text, old, new) == replace_from(text, 1, old, new)

\* re.sub(r'\(.*?\)', '', text): from a '(' to the first ')' after it
RECURSIVE remove_parenthesised_from(_, _)
remove_parenthesised_from(text, i) ==
    IF i > Len(text) THEN <<>>
    ELSE IF text[i] = "(" /\ \E j \in (i + 1)..Len(text) : text[j] = ")"
         THEN remove_parenthesised_from(
                  text, 1 + CHOOSE j \in (i + 1)..Len(text) :
                                /\ text[j] = ")"
                                /\ \A k \in (i + 1)..(j - 1) : text[k] # ")")
         ELSE <<text[i]>> \o remove_parenthesised_from(text, i + 1)

remove_parenthesised(text) == remove_parenthesised_from(text, 1)

\* re.sub(r'\s+', ' ', text)
RECURSIVE collapse_spaces_from(_, _)
collapse_spaces_from(text, i) ==
    IF i > Len(text) THEN <<>>
    ELSE IF text[i] \in Space
         THEN <<" ">> \o collapse_spaces_from(text, i + run_length(text, i, Space))
         ELSE <<text[i]>> \o collapse_spaces_from(text, i + 1)

collapse_spaces(text) == collapse_spaces_from(text, 1)

\* str() of a non-negative int
RECURSIVE str_int(_)
str_int(n) ==
    IF n < 10 THEN <<<<"0", "1", "2", "3", "4", "5", "6", "7", "8", "9">>[n + 1]>>
    ELSE str_int(n \div 10) \o str_int(n % 10)

RECURSIVE zfill(_, _)
zfill(digits, width) ==
    IF Len(digits) >= width THEN digits ELSE zfill(<<"0">> \o digits, width)

\* astype(str) of a cell that holds a float or "" (lines 764-765): the
\* shortest decimal, with '.0' for a whole number (floats that Python writes
\* with an exponent are beyond the tokens)
str_float(x) ==
    IF x = NaN THEN <<>>
    ELSE LET digits == zfill(str_int(Abs(x[1])), x[2] + 1)
             whole == SubSeq(digits, 1, Len(digits) - x[2])
             frac == SubSeq(digits, Len(digits) - x[2] + 1, Len(digits))
         IN  (IF x[1] < 0 THEN <<"-">> ELSE <<>>)
             \o whole \o <<".">> \o (IF frac = <<>> THEN <<"0">> ELSE frac)

(***************************************************************************)
(* parse_custom_date of date_cleaning.py on the text of a cell.  None is   *)
(* the empty sequence; a date is the text the function returns.            *)
(***************************************************************************)
None == <<>>

\* extended_month_map (lines 14-50) on an upper-case token; the lower-case
\* and capitalised keys never equal such a token
extended_month_map(token) ==
    IF token \in {<<"J", "A", "N">>, <<"A", "N">>, <<"J", "A">>, <<"J", "A",
                  "N", "U", "A", "R", "Y">>}
        THEN <<"0", "1">>
    ELSE IF token \in {<<"F", "E", "B">>, <<"F", "E">>, <<"F", "B">>, <<"F", "E",
                       "B", "R", "U", "A", "R", "Y">>}
        THEN <<"0", "2">>
    ELSE IF token \in {<<"M", "A", "R">>, <<"M", "R">>, <<"R", "C", "H">>, <<"M",
                       "A", "R", "C", "H">>}
        THEN <<"0", "3">>
    ELSE IF token \in {<<"A", "P", "R">>, <<"A", "P">>, <<"A", "P", "R", "I", "L">>}
        THEN <<"0", "4">>
    ELSE IF token \in {<<"M", "A", "Y">>, <<"M", "Y">>}
        THEN <<"0", "5">>
    ELSE IF token \in {<<"J", "U", "N">>, <<"J", "N">>, <<"U", "N">>, <<"J", "U",
                       "N", "E">>}
        THEN <<"0", "6">>
    ELSE IF token \in {<<"J", "U", "L">>, <<"J", "L">>, <<"U", "L">>, <<"J", "U",
                       "L", "Y">>, <<"J", "U">>}
        THEN <<"0", "7">>
    ELSE IF token \in {<<"A", "U", "G">>, <<"A", "U">>, <<"A", "0", "G">>, <<"A",
                       "U", "G", "U", "S", "T">>}
        THEN <<"0", "8">>
    ELSE IF token \in {<<"S", "E", "P">>, <<"S", "E">>, <<"S", "E", "P", "T">>,
                       <<"S", "E", "P", "T", "E", "M", "B", "E", "R">>}
        THEN <<"0", "9">>
    ELSE IF token \in {<<"O", "C", "T">>, <<"O", "C">>, <<"0", "C", "T">>, <<"O",
                       "C", "T", "O", "B", "E", "R">>}
        THEN <<"1", "0">>
    ELSE IF token \in {<<"N", "O", "V">>, <<"N", "O">>, <<"N", "O", "V", "E", "M",
                       "B", "E", "R">>}
        THEN <<"1", "1">>
    ELSE IF token \in {<<"D", "E", "C">>, <<"D", "E">>, <<"D", "E", "C", "E", "M",
                       "B", "E", "R">>}
        THEN <<"1", "2">>
    ELSE None

MonthNumbers ==
    {<<"0", "1">>, <<"0", "2">>, <<"0", "3">>, <<"0", "4">>, <<"0", "5">>, <<"0", "6">>,
     <<"0", "7">>, <<"0", "8">>, <<"0", "9">>, <<"1", "0">>, <<"1", "1">>, <<"1", "2">>}

\* normalize_month (lines 52-88).  close is what get_close_matches (line 77)
\* and, after it, the containment loop (lines 82-84) find for a token that
\* the map does not resolve: a month number or None
normalize_month(token, close) ==
    LET t == strip(upper(token))
        clean_token == keep_chars(t, {UpperCase[i] : i \in 1..26})
    IN  IF token = <<>> THEN None
        ELSE IF extended_month_map(t) # None THEN extended_month_map(t)
        ELSE IF extended_month_map(clean_token) # None
             THEN extended_month_map(clean_token)
        ELSE IF Len(t) >= 4 /\ extended_month_map(SubSeq(t, 1, 4)) # None
             THEN extended_month_map(SubSeq(t, 1, 4))
        ELSE IF Len(t) >= 3 /\ extended_month_map(SubSeq(t, 1, 3)) # None
             THEN extended_month_map(SubSeq(t, 1, 3))
        ELSE close

\* line 99: re.search(r'(^|\D)00($|\D)', original_x)
has_double_zero(original_x) ==
    \E i \in 1..Len(original_x) :
        /\ matches_at(original_x, i, <<"0", "0">>)
        /\ i = 1 \/ original_x[i - 1] \notin Digit
        /\ i + 2 > Len(original_x) \/ original_x[i + 2] \notin Digit

\* lines 109, 119, 152, 161, 187, 196
pivot_year(year) ==
    IF Len(year) = 2
    THEN IF int(year) <= 30 THEN <<"2", "0">> \o year ELSE <<"1", "9">> \o year
    ELSE year

\* f"{int(day):02d}"
two_digits(day) == zfill(str_int(int(day)), 2)

\* f"{int(day):02d}/{int(month):02d}/{year}"
numeric_date(day, month, year) ==
    two_digits(day) \o <<"/">> \o two_digits(month) \o <<"/">> \o year

\* f"{int(day):02d}/{month_num}/{year}", None when the month is not resolved
named_date(day, month_str, year, close) ==
    IF normalize_month(month_str, close) = None THEN None
    ELSE two_digits(day) \o <<"/">> \o normalize_month(month_str, close)
         \o <<"/">> \o pivot_year(year)

DateSep == {"-", "/", "."}

DateSepSpace == {"-", "/", ".", " "}

\* line 104
mixed_pattern1 ==
    <<Star(Space), Plus(Digit), Plus(Space), Rep(Digit, 1, 2), Rep(DateSep, 1, 1),
      Rep(Digit, 1, 2), Rep(DateSep, 1, 1), Rep(Digit, 2, 4), Star(Space)>>

\* line 112
mixed_pattern2 ==
    <<Star(Space), Plus(Digit), Plus(Space), Rep(Digit, 1, 2), Plus(DateSepSpace),
      Rep(Letter, 3, 9), Plus(DateSepSpace), Rep(Digit, 2, 4), Star(Space)>>

\* line 146
day_name_year == <<Rep(Digit, 1, 2), Plus(DateSepSpace), Rep(Letter, 3, 9),
                   Plus(DateSepSpace), Rep(Digit, 2, 4)>>

\* line 155
name_day_year == <<Rep(Letter, 3, 9), Plus(DateSepSpace), Rep(Digit, 1, 2),
                   Plus(DateSepSpace), Rep(Digit, 2, 4)>>

\* line 164
year_month_day == <<Rep(Digit, 4, 4), Plus(DateSepSpace), Rep(Digit, 1, 2),
                    Plus(DateSepSpace), Rep(Digit, 1, 2)>>

\* line 169
day_month_year == <<Rep(Digit, 1, 2), Plus(DateSepSpace), Rep(Digit, 1, 2),
                    Plus(DateSepSpace), Rep(Digit, 4, 4)>>

\* line 174
compact_ymd == <<Rep(Digit, 4, 4), Rep(Digit, 2, 2), Rep(Digit, 2, 2)>>

\* line 181
compact_day_name_year == <<Rep(Digit, 1, 2), Rep(Letter, 3, 9), Rep(Digit, 2, 4)>>

\* line 190
compact_name_day_year == <<Rep(Letter, 3, 9), Rep(Digit, 1, 2), Rep(Digit, 2, 4)>>

\* line 200
year_only == <<Rep(Digit, 4, 4)>>

\* lines 133-138, in the order of the dict
month_corrections ==
    <<<<<<"J", "U", "L", "Y">>, <<"J", "U", "L">>>>,
      <<<<"J", "A", "N", "U", "A", "R", "Y">>, <<"J", "A", "N">>>>,
      <<<<"F", "E", "B", "R", "U", "A", "R", "Y">>, <<"F", "E", "B">>>>,
      <<<<"M", "A", "R", "C", "H">>, <<"M", "A", "R">>>>,
      <<<<"A", "P", "R", "I", "L">>, <<"A", "P", "R">>>>,
      <<<<"J", "U", "N", "E">>, <<"J", "U", "N">>>>,
      <<<<"A", "U", "G", "U", "S", "T">>, <<"A", "U", "G">>>>,
      <<<<"S", "E", "P", "T", "E", "M", "B", "E", "R">>, <<"S", "E", "P">>>>,
      <<<<"S", "E", "P", "T">>, <<"S", "E", "P">>>>,
      <<<<"O", "C", "T", "O", "B", "E", "R">>, <<"O", "C", "T">>>>,
      <<<<"N", "O", "V", "E", "M", "B", "E", "R">>, <<"N", "O", "V">>>>,
      <<<<"D", "E", "C", "E", "M", "B", "E", "R">>, <<"D", "E", "C">>>>>>

RECURSIVE correct_months(_, _)
correct_months(text, i) ==
    IF i > Len(month_corrections) THEN text
    ELSE correct_months(replace(text, month_corrections[i][1], month_corrections[i][2]),
                        i + 1)

\* lines 123-143
cleaned_upper(original_x) ==
    LET a == collapse_spaces(remove_parenthesised(upper(original_x)))
        b == replace(replace(a, <<"0", "C", "T">>, <<"O", "C", "T">>),
                     <<"A", "0", "G">>, <<"A", "U", "G">>)
        c == drop_chars(b, {"`", "'", "[", "]", "{", "}"})
    IN  strip(correct_months(c, 1))

\* what the library makes of a two-digit year (%y of strptime; the sliding
\* window of dateutil gives the same century for the years of the tokens)
library_year(yy) == IF yy <= 68 THEN 2000 + yy ELSE 1900 + yy

\* d/m/yy and d-m-yy, which no pattern of lines 104-200 takes
day_month_short_year ==
    <<Rep(Digit, 1, 2), Rep({"-", "/"}, 1, 1), Rep(Digit, 1, 2),
      Rep({"-", "/"}, 1, 1), Rep(Digit, 2, 2)>>

LibraryDates ==
    {<<"0", "6", "/", "1", "1", "/", "2", "0", "2", "6">>,
     <<"0", "1", "/", "0", "1", "/", "2", "0", "2", "4">>}

\* pd.to_datetime(original_x, dayfirst=True, errors='coerce'), then without
\* dayfirst (lines 205-219), as the text strftime('%d/%m/%Y') makes of the
\* first of the two that is not null; None when both are null; Raised when
\* the library raises.  A day-first date with a two-digit year is read as
\* such, 'today' and 'now' are the clock's date, a text without a digit is
\* no date; what the library makes of any other text is not modelled, it
\* may be null, a date or an exception.
to_datetime(original_x) ==
    LET m == re_match(day_month_short_year, original_x, TRUE)
        day == int(group(original_x, m, 1))
        month == int(group(original_x, m, 3))
        year == library_year(int(group(original_x, m, 5)))
    IN  IF m # NoMatch /\ is_valid_date(DMY(day, month, year))
        THEN {numeric_date(group(original_x, m, 1), group(original_x, m, 3),
                           str_int(year))}
        ELSE IF original_x \in {<<"t", "o", "d", "a", "y">>, <<"n", "o", "w">>}
        THEN LibraryDates
        ELSE IF keep_chars(original_x, Digit) = <<>> THEN {None}
        ELSE {None, Raised} \cup LibraryDates

\* lines 204-223, with the outcome of the library
last_resort(parsed) ==
    IF parsed = None \/ parsed = Raised THEN parsed
    ELSE IF matches_at(parsed, 1, <<"0", "0", "/">>) THEN None
    ELSE parsed

\* lines 102-120: the noise-prefixed patterns, None when neither returns
mixed_date(original_x, close) ==
    LET m1 == re_match(mixed_pattern1, original_x, TRUE)
        m2 == re_match(mixed_pattern2, original_x, TRUE)
    IN  IF m1 # NoMatch
        THEN numeric_date(group(original_x, m1, 4), group(original_x, m1, 6),
                          pivot_year(group(original_x, m1, 8)))
        ELSE IF m2 # NoMatch
        THEN named_date(group(original_x, m2, 4), upper(group(original_x, m2, 6)),
                        group(original_x, m2, 8), close)
        ELSE None

\* lines 145-177: Strategy 1, None when no pattern returns
standard_date(x_upper, close) ==
    LET a == re_match(day_name_year, x_upper, FALSE)
        b == re_match(name_day_year, x_upper, FALSE)
        c == re_match(year_month_day, x_upper, FALSE)
        d == re_match(day_month_year, x_upper, FALSE)
        e == re_match(compact_ymd, x_upper, FALSE)
        by_a == IF a = NoMatch THEN None
                ELSE named_date(group(x_upper, a, 1), group(x_upper, a, 3),
                                group(x_upper, a, 5), close)
        by_b == IF b = NoMatch THEN None
                ELSE named_date(group(x_upper, b, 3), group(x_upper, b, 1),
                                group(x_upper, b, 5), close)
    IN  IF by_a # None THEN by_a
        ELSE IF by_b # None THEN by_b
        ELSE IF c # NoMatch
        THEN numeric_date(group(x_upper, c, 5), group(x_upper, c, 3),
                          group(x_upper, c, 1))
        ELSE IF d # NoMatch
        THEN numeric_date(group(x_upper, d, 1), group(x_upper, d, 3),
                          group(x_upper, d, 5))
        ELSE IF e # NoMatch
        THEN numeric_date(group(x_upper, e, 3), group(x_upper, e, 2),
                          group(x_upper, e, 1))
        ELSE None

\* lines 179-197: Strategy 2, None when no pattern returns
compact_date(x_upper, close) ==
    LET x_no_space == drop_chars(x_upper, Space)
        a == re_match(compact_day_name_year, x_no_space, FALSE)
        b == re_match(compact_name_day_year, x_no_space, FALSE)
        by_a == IF a = NoMatch THEN None
                ELSE named_date(group(x_no_space, a, 1), group(x_no_space, a, 2),
                                group(x_no_space, a, 3), close)
        by_b == IF b = NoMatch THEN None
                ELSE named_date(group(x_no_space, b, 2), group(x_no_space, b, 1),
                                group(x_no_space, b, 3), close)
    IN  IF by_a # None THEN by_a ELSE by_b

\* lines 101-223: the formats in their order, once line 99 has let the text
\* through; an exception of the library ends at line 220
try_formats(original_x, close, parsed) ==
    LET x_upper == cleaned_upper(original_x)
    IN  IF mixed_date(original_x, close) # None THEN mixed_date(original_x, close)
        ELSE IF standard_date(x_upper, close) # None THEN standard_date(x_upper, close)
        ELSE IF compact_date(x_upper, close) # None THEN compact_date(x_upper, close)
        ELSE IF re_match(year_only, x_upper, TRUE) # NoMatch THEN x_upper
        ELSE try_except(last_resort(parsed), None)

\* line 99 and what it returns
rejects_double_zero_at_start_only(original_x) ==
    matches_at(original_x, 1, <<"0", "0">>)
        /\ (Len(original_x) = 2 \/ original_x[3] \notin Digit)

rejects_double_zero(original_x) == has_double_zero(original_x)

\* parse_custom_date (lines 90-225) on the text of a cell
parse_custom_date_text(x, close, parsed) ==
    LET original_x == strip(x)
    IN  IF original_x = <<>> THEN None
        ELSE IF rejects_double_zero(original_x) THEN None
        ELSE try_except(try_formats(original_x, close, parsed), None)

(***************************************************************************)
(* One raw cell handed to one of the token functions.                      *)
(***************************************************************************)
AmountPrefixes ==
    {<<>>, <<"-">>, <<"(">>, <<" ">>}

AmountBodies ==
    {<<>>, <<"1", "0", "0">>, <<"9", "9", ".", "9">>,
     <<"1", ",", "2", "3", "4", ".", "5", "6">>,
     <<"4", ".", "5", "4", ".", "5", "5", "4">>,
     <<"5", ".", "3", "2", "8", ".", "2", "8">>,
     <<"1", "2", ".", "3", "4", "5">>, <<"1", "2", ":", "3", "4", "5">>,
     <<"1", "5", ";", "5", "0">>, <<".">>, <<"1", "2", ".">>,
     <<"1", ":", "2", ":", "3">>, <<"1", ".", "2", ":", "3", "4">>,
     <<"a", "b", "c">>, <<"0">>}

AmountSuffixes ==
    {<<>>, <<")">>, <<"D", "R">>, <<" ", "D", "R">>, <<" ", "c", "r">>,
     <<"-">>}

AmountTokens ==
    {p \o b \o s : p \in AmountPrefixes, b \in AmountBodies, s \in AmountSuffixes}

DateDays ==
    {<<"1", "5">>, <<"5">>, <<"0", "0">>, <<"3", "1">>}

DateSeparators ==
    {<<"-">>, <<"/">>, <<" ">>, <<>>}

DateMonths ==
    {<<"J", "A", "N">>, <<"S", "e", "p", "t">>, <<"0", "1">>, <<"1", "3">>,
     <<"X", "Y", "Z">>, <<"0", "0">>}

DateYears ==
    {<<"2", "4">>, <<"4", "5">>, <<"2", "0", "2", "4">>, <<"2", "0", "2">>,
     <<"0", "0">>, <<"3", "0">>, <<"3", "1">>}

OtherDateTokens ==
    {<<"2", "0", "2", "4">>,
     <<"2", "0", "2", "4", "-", "0", "3", "-", "0", "5">>,
     <<"2", "0", "2", "4", "0", "3", "0", "5">>,
     <<"J", "A", "N", "-", "1", "5", "-", "2", "4">>,
     <<"J", "A", "N", "1", "5", "4", "5">>,
     <<"7", " ", "2", "8", "-", "1", "1", "-", "2", "0", "2", "5">>,
     <<"2", "5", " ", "2", "8", "-", "1", "1", "-", "4", "5">>,
     <<"2", "5", " ", "2", "8", " ", "N", "o", "v", " ", "4", "5">>,
     <<"t", "o", "d", "a", "y">>,
     <<"1", "5", "-", "0", "C", "T", "-", "2", "4">>,
     <<"1", "5", " ", "J", "U", "L", "Y", " ", "2", "0", "2", "4">>,
     <<"(", "x", ")", " ", "1", "5", "-", "J", "A", "N", "-", "2", "4">>,
     <<"2", "0", "0", "0", "-", "0", "1", "-", "1", "5">>,
     <<"1", "5", ".", "0", "1", ".", "2", "0", "2", "4">>}

DateCellTokens ==
    {d \o s \o m \o s \o y : d \in DateDays, s \in DateSeparators,
                             m \in DateMonths, y \in DateYears}
    \cup OtherDateTokens

\* line 765 and its like, and the function on its own; the rounding of a
\* decimal tie is left to the binary float
ExtractAmountNew ==
    /\ called = ""
    /\ \E half_up \in BOOLEAN : returned' = extract_amount_new(cell, half_up)
    /\ called' = "extract_amount_new"
    /\ UNCHANGED <<cell, recVars, dateVars>>

\* line 1238
ExtractAmount ==
    /\ called = ""
    /\ returned' = extract_amount(cell)
    /\ called' = "extract_amount"
    /\ UNCHANGED <<cell, recVars, dateVars>>

\* line 731
ParseBalance ==
    /\ called = ""
    /\ returned' = parse_balance(cell)
    /\ called' = "parse_balance"
    /\ UNCHANGED <<cell, recVars, dateVars>>

\* lines 764-765, 774-775, 784-785: the corrected column, made from the
\* column that extract_amount or parse_balance has already rewritten
CreateOcrCorrected ==
    /\ called \in {"extract_amount", "parse_balance"}
    /\ \E half_up \in BOOLEAN :
           returned' = extract_amount_new(str_float(returned), half_up)
    /\ called' = "create_ocr_corrected_columns"
    /\ UNCHANGED <<cell, recVars, dateVars>>

\* lines 1309-1316: a cell of a date column goes through parse_custom_date
ParseCustomDate ==
    /\ called = ""
    /\ \E close \in MonthNumbers \cup {None}, parsed \in to_datetime(strip(cell)) :
           returned' = parse_custom_date_text(cell, close, parsed)
    /\ called' = "parse_custom_date"
    /\ UNCHANGED <<cell, recVars, dateVars>>

InitTokens ==
    /\ cell \in AmountTokens \cup DateCellTokens
    /\ called = ""
    /\ returned = <<>>
    /\ DatesIdle
    /\ ReconcileIdle

NextTokens ==
    \/ ExtractAmountNew
    \/ ExtractAmount
    \/ ParseBalance
    \/ CreateOcrCorrected
    \/ ParseCustomDate

SpecTokens == InitTokens /\ [][NextTokens]_vars

(***************************************************************************)
(* Properties of calculate_difference_and_verify, under SpecReconcile.     *)
(***************************************************************************)
\* the table handed in has a debit, a credit and a balance column
HasRequiredColumns == Roles \subseteq df.cols

\* Difference of row i as the claims define it, from the table handed in:
\* Balance[i-1] + Credit[i] + Debit[i] - Balance[i], absent cells read as 0
RawDifference(i) ==
    round_to_2(df.Balance[i-1]) + round_to_2(df.Credits[i])
        + round_to_2(df.Debits[i]) - round_to_2(df.Balance[i])

StrictlyInsideOneUnit(d) == d > -OneUnit /\ d < OneUnit

\* C1: the function returns adjusted = true exactly when the ledger has more
\* than one row and every Difference[i], i >= 1, computed from the
\* unadjusted balances lies strictly between -1.00 and 1.00; a difference
\* of exactly +-1.00, or a ledger of one row or none, gives adjusted = false.
\* Differences are computed only when the three columns are found.
C1_AdjustedIffInRange ==
    (rpc = "done" /\ HasRequiredColumns) =>
        (adjusted <=> (df.n > 1 /\ \A i \in 2..df.n :
                                      StrictlyInsideOneUnit(RawDifference(i))))

\* a ledger of several rows returned unadjusted because one difference is
\* exactly 1.00 while every other one is strictly inside the range
C1_Witness ==
    /\ rpc = "done" /\ HasRequiredColumns /\ df.n > 1 /\ ~adjusted
    /\ \E i \in 2..df.n :
         /\ RawDifference(i) = OneUnit
         /\ \A j \in 2..df.n : j # i => StrictlyInsideOneUnit(RawDifference(j))

\* C2: when adjusted = true, AdjustedBalance[0] is the cent-rounded
\* Balance[0] (absent read as 0.00), AdjustedBalance[i] =
\* AdjustedBalance[i-1] + Credit[i] + Debit[i] for every i >= 1, and every
\* Difference of the returned table is 0.
C2_AdjustedRecurrence ==
    (rpc = "done" /\ adjusted) =>
        /\ df_diff.Balance_Adjusted[1] = <<round_to_2(df.Balance[1])>>
        /\ \A i \in 2..df.n :
             df_diff.Balance_Adjusted[i] =
                 <<round_to_2(df_diff.Balance_Adjusted[i-1])
                     + round_to_2(df.Credits[i]) + round_to_2(df.Debits[i])>>
        /\ \A i \in 1..df.n : df_diff.Difference[i] = 0

\* an adjusted ledger in which some balance really was rewritten, with a
\* debit taking part
C2_Witness ==
    /\ rpc = "done" /\ adjusted
    /\ \E i \in 2..df.n :
         /\ RawDifference(i) # 0
         /\ round_to_2(df.Debits[i]) # 0
         /\ df_diff.Balance_Adjusted[i] # df.Balance[i]

\* C3 as stated: with all columns and adjusted = false, AdjustedBalance[i]
\* equals the input Balance[i] for every row, Difference keeps its raw
\* value, and a row with |Difference| >= 1.00 leaves all_correct false.
C3_BalancesEqualInput ==
    (rpc = "done" /\ HasRequiredColumns /\ ~adjusted) =>
        /\ \A i \in 1..df.n : df_diff.Balance_Adjusted[i] = df.Balance[i]
        /\ \A i \in 2..df.n : df_diff.Difference[i] = RawDifference(i)
        /\ (\E i \in 2..df.n : Abs(RawDifference(i)) >= OneUnit) => ~all_correct

\* C3, amended: with all columns and adjusted = false, AdjustedBalance[i]
\* equals the input Balance[i] rounded to cents, an absent balance being
\* read as 0.00; Difference keeps its raw value (0 in row 0), and a row
\* with |Difference| >= 1.00 leaves all_correct false.
C3_BalancesEqualRoundedInput ==
    (rpc = "done" /\ HasRequiredColumns /\ ~adjusted) =>
        /\ \A i \in 1..df.n :
             df_diff.Balance_Adjusted[i] = <<round_to_2(df.Balance[i])>>
        /\ df.n >= 1 => df_diff.Difference[1] = 0
        /\ \A i \in 2..df.n : df_diff.Difference[i] = RawDifference(i)
        /\ (\E i \in 2..df.n : Abs(RawDifference(i)) >= OneUnit) => ~all_correct

\* an unadjusted ledger with a difference of at least 1.00, a debit in that
\* row, and an absent balance somewhere
C3_Witness ==
    /\ rpc = "done" /\ HasRequiredColumns /\ ~adjusted /\ ~all_correct
    /\ \E i \in 2..df.n : Abs(RawDifference(i)) >= OneUnit
                            /\ round_to_2(df.Debits[i]) # 0
    /\ \E j \in 1..df.n : df.Balance[j] = NaN

\* C4: on a ledger whose every balance is present and whose every row
\* satisfies Balance[i] = Balance[i-1] + Credit[i] + Debit[i] exactly, the
\* function returns all_correct = true and adjusted = false.
C4_ExactLedgerNotAdjusted ==
    (/\ rpc = "done" /\ HasRequiredColumns
     /\ \A i \in 1..df.n : df.Balance[i] # NaN
     /\ \A i \in 2..df.n : RawDifference(i) = 0)
        => (all_correct /\ ~adjusted)

C6_MissingColumnReturnsInput ==
    (rpc \in {"done", "raised"} /\ ~HasRequiredColumns) =>
        /\ rpc = "done"
        /\ df_diff.cols = df.cols
        /\ df_diff.Debits = df.Debits /\ df_diff.Credits = df.Credits
        /\ ~all_correct /\ ~adjusted

(***************************************************************************)
(* Properties of the chronology repair, under SpecRepair.                  *)
(***************************************************************************)
\* C7: the repair is idempotent for every ledger: run on its own output it
\* changes no date, reorders no row and returns the same direction.
C7_RepairIdempotent ==
    (dpc = "done" /\ run = 2) =>
        /\ table = snapshot.first
        /\ date_order = snapshot.first_order

\* the dates of the ledger handed in, as date_correction parses them, are
\* all present (blank rows aside) and each is in ascending order with its
\* nearest valid neighbours
AlreadyAscending ==
    /\ Len(snapshot.parsed) = Len(original.rows)
    /\ \A i \in 1..Len(original.rows) :
         ~is_empty_row(original.rows[i]) => is_valid_date(snapshot.parsed[i])
    /\ \A i \in 1..Len(original.rows) :
         is_valid_date(snapshot.parsed[i]) =>
             is_date_in_order(snapshot.parsed[i],
                              prev_valid(snapshot.parsed, i),
                              next_valid(snapshot.parsed, i), "ascending")

\* C8: on a ledger whose dates are already ascending and monotonic, with
\* no missing dates, the repair changes no date (local loop, run repair,
\* final sweep, year-drift pass), performs no rotation and returns
\* direction ascending.
C8_AscendingLedgerUntouched ==
    (dpc = "done" /\ run = 1 /\ AlreadyAscending) =>
        /\ dates_of(table.rows) = snapshot.parsed
        /\ \A i \in 1..Len(table.rows) :
             table.rows[i].payload = original.rows[i].payload
        /\ date_order = "ascending"

\* C9: when the inferred direction is descending, rotate_if_descending
\* reverses the whole row sequence as one unit: output row k is input row
\* n-1-k with every cell unchanged; when the direction is ascending the
\* row order is left unchanged.
C9_RotationReversesWholeRows ==
    dpc = "year_fix" =>
        /\ Len(table.rows) = Len(snapshot.pre_rotate)
        /\ \A k \in 1..Len(table.rows) :
             table.rows[k] =
                 IF snapshot.pre_order = "descending"
                 THEN snapshot.pre_rotate[Len(table.rows) + 1 - k]
                 ELSE snapshot.pre_rotate[k]

\* a descending ledger of several rows has just been rotated: its first row
\* is the former last row, and the two differ in date and in payload
C9_Witness ==
    /\ dpc = "year_fix" /\ snapshot.pre_order = "descending"
    /\ Len(table.rows) >= 3
    /\ table.rows[1] = snapshot.pre_rotate[Len(table.rows)]
    /\ table.rows[1].xn # snapshot.pre_rotate[1].xn
    /\ table.rows[1].payload # snapshot.pre_rotate[1].payload

\* C10: whenever rotation is performed, the direction that get_date_order
\* recomputes on the reversed table is ascending, the direction that
\* rotate_if_descending reports.
C10_RotatedIsAscending ==
    (dpc = "year_fix" /\ snapshot.pre_order = "descending") =>
        /\ new_date_order = "ascending"
        /\ new_date_order = date_order

\* the rows holding the first occurrence of each valid date
FirstOccurrences(dates) ==
    { i \in 1..Len(dates) :
        is_valid_date(dates[i]) /\ \A j \in 1..(i-1) : dates[j] # dates[i] }

\* the pairs of first occurrences with no first occurrence between them,
\* and the pair (first, last)
ComparedPairs(dates) ==
    LET P == FirstOccurrences(dates)
        first == CHOOSE i \in P : \A j \in P : i <= j
        last  == CHOOSE i \in P : \A j \in P : j <= i
    IN  [consecutive |-> { pr \in P \X P :
                             pr[1] < pr[2] /\ ~\E k \in P : pr[1] < k /\ k < pr[2] },
         ends |-> <<first, last>>]

EarlierOrEqualPairs(dates) ==
    LET c == ComparedPairs(dates)
    IN  Cardinality({ pr \in c.consecutive : dt(dates[pr[1]]) <= dt(dates[pr[2]]) })
          + (IF dt(dates[c.ends[1]]) <= dt(dates[c.ends[2]]) THEN 1 ELSE 0)

LaterPairs(dates) ==
    LET c == ComparedPairs(dates)
    IN  Cardinality({ pr \in c.consecutive : dt(dates[pr[1]]) > dt(dates[pr[2]]) })
          + (IF dt(dates[c.ends[1]]) > dt(dates[c.ends[2]]) THEN 1 ELSE 0)

\* the direction has just been inferred from the parsed dates
OrderJustInferred == dpc = "local_loop" /\ iteration = 0

\* C11 as stated: over the valid dates with duplicates removed, counting
\* each consecutive pair and the first-vs-last pair, the direction is
\* ascending when the earlier-or-equal pairs are the majority and
\* descending otherwise; fewer than 2 distinct valid dates give ascending.
C11_MajorityDecides ==
    OrderJustInferred =>
        LET dates == dates_of(table.rows)
        IN  date_order =
              IF Cardinality(FirstOccurrences(dates)) < 2 THEN "ascending"
              ELSE IF EarlierOrEqualPairs(dates) > LaterPairs(dates)
                   THEN "ascending" ELSE "descending"

\* C11, amended: the direction is ascending when the earlier-or-equal pairs
\* are at least as many as the later pairs (a tie gives ascending) and
\* descending otherwise; fewer than 2 distinct valid dates give ascending.
C11_AtLeastAsManyDecides ==
    OrderJustInferred =>
        LET dates == dates_of(table.rows)
        IN  date_order =
              IF Cardinality(FirstOccurrences(dates)) < 2 THEN "ascending"
              ELSE IF EarlierOrEqualPairs(dates) >= LaterPairs(dates)
                   THEN "ascending" ELSE "descending"

\* a direction inferred from a tie between the two counts
C11_Witness ==
    /\ OrderJustInferred
    /\ LET dates == dates_of(table.rows)
       IN  /\ Cardinality(FirstOccurrences(dates)) >= 2
           /\ EarlierOrEqualPairs(dates) = LaterPairs(dates)
           /\ date_order = "ascending"

\* row i of rows is non-blank and holds no valid date
LacksDate(rows, i) ==
    i \in 1..Len(rows) /\ ~is_empty_row(rows[i]) /\ ~is_valid_date(rows[i].xn)

\* the maximal runs <<i, k>> of k consecutive rows i..i+k-1 lacking a date
RunsLackingDate(rows) ==
    { r \in (1..Len(rows)) \X (1..Len(rows)) :
        /\ r[1] + r[2] - 1 <= Len(rows)
        /\ \A j \in r[1]..(r[1] + r[2] - 1) : LacksDate(rows, j)
        /\ ~LacksDate(rows, r[1] - 1)
        /\ ~LacksDate(rows, r[1] + r[2]) }

\* no row of the run has a value date that is valid and in order with the
\* bounds of the run
NoUsableValueDate(t, r, B, A, order) ==
    \A j \in r[1]..(r[1] + r[2] - 1) :
        ~(/\ t.vcol
          /\ is_valid_date(t.rows[j].vd)
          /\ is_date_in_order(t.rows[j].vd, B, A, order))

\* what C12 says row j (1..k) of the run r gets, bounded by B and A
InterpolatedDate(r, j, B, A, order) ==
    LET k == r[2]
    IN  IF valid(B) /\ valid(A)
        THEN IF order = "ascending"
             THEN strftime(dt(B) + (j * (dt(A) - dt(B))) \div (k + 1))
             ELSE strftime(dt(B) - (j * (dt(B) - dt(A))) \div (k + 1))
        ELSE IF valid(B)
             THEN strftime(dt(B) + (IF order = "ascending" THEN j ELSE -j))
        ELSE IF valid(A)
             THEN strftime(dt(A) - (IF order = "ascending" THEN 1 ELSE -1) * (k + 1 - j))
        ELSE EMPTY

SteppedOrInterpolatedDate(r, j, B, A, order) ==
    LET total_days == IF order = "ascending" THEN dt(A) - dt(B) ELSE dt(B) - dt(A)
    IN  IF valid(B) /\ valid(A) /\ total_days <= 0
        THEN strftime(dt(B) + (IF order = "ascending" THEN j ELSE -j))
        ELSE InterpolatedDate(r, j, B, A, order)

\* row i holds the date that both its nearest valid neighbours hold
TakesSharedNeighbourDate(dates, i) ==
    /\ same_above_below(prev_valid(dates, i), next_valid(dates, i))
    /\ dates[i] = prev_valid(dates, i)

C13_BlankRowsKeepNoDate ==
    \A i \in 1..Len(table.rows) :
        (table.rows[i].payload = EMPTY /\ table.rows[i].vd = EMPTY)
            => table.rows[i].xn = EMPTY

\* the repair has ended with a blank row lying between two dated rows, one
\* of which had no date before the repair
C13_Witness ==
    /\ dpc = "done" /\ run = 1
    /\ \E i \in 2..(Len(table.rows) - 1) :
         /\ is_empty_row(table.rows[i])
         /\ is_valid_date(table.rows[i-1].xn)
         /\ is_valid_date(table.rows[i+1].xn)
         /\ \E j \in {i-1, i+1} :
              \E k \in 1..Len(original.rows) :
                 /\ original.rows[k].payload = table.rows[j].payload
                 /\ ~is_valid_date(snapshot.parsed[k])

(***************************************************************************)
(* Properties of the amount normalizer, under SpecTokens.  The numeric     *)
(* remainder of a token is what is left of it after the sign, the CR/DR    *)
(* words, the separators and every other character are gone and ':' and   *)
(* ';' have become dots.                                                   *)
(***************************************************************************)
Normalized == called = "extract_amount_new"

RemainderDigits(raw) == drop_chars(clean_text(raw), {"."})

RemainderDots(raw) == Len(keep_chars(clean_text(raw), {"."}))

FinalSegment(raw) == after_last(clean_text(raw), ".")

Magnitude(x) == Float(Abs(x[1]), x[2])

\* digits as an integer, digits / 10 or digits / 100, by the digits after the
\* dot
DecimalShift(raw) ==
    LET k == IF RemainderDots(raw) = 0 THEN 0 ELSE Len(FinalSegment(raw))
    IN  Float(int(RemainderDigits(raw)), IF k >= 2 THEN 2 ELSE k)

\* C14: for a raw amount whose numeric remainder has at most one dot (and a
\* digit), normalize returns, up to sign, the digits as an integer when there
\* is no dot or no digit after it, the digits without the dot / 10 when one
\* digit follows the dot, and the digits without the dot / 100 when two or
\* more follow it.
C14_DecimalShiftInference ==
    (Normalized /\ RemainderDots(cell) <= 1 /\ RemainderDigits(cell) # <<>>)
        => /\ returned # NaN
           /\ Magnitude(returned) = DecimalShift(cell)

\* the digits of a remainder with several dots: all of them as an integer
\* when the final segment has three digits, else the final dot as the decimal
\* point, rounded to two decimals
Grouped(raw, half_up) ==
    IF Len(FinalSegment(raw)) = 3 THEN Float(int(RemainderDigits(raw)), 0)
    ELSE round_2(Float(int(RemainderDigits(raw)), Len(FinalSegment(raw))), half_up)

\* C15: for a raw amount whose numeric remainder has several dots, normalize
\* returns, up to sign, the concatenated digits with no decimal shift when
\* the final dot-separated segment has exactly 3 digits, and otherwise the
\* number whose only decimal point is the final dot.
C15_ThousandsGrouping ==
    (Normalized /\ RemainderDots(cell) >= 2 /\ RemainderDigits(cell) # <<>>)
        => /\ returned # NaN
           /\ \E half_up \in BOOLEAN : Magnitude(returned) = Grouped(cell, half_up)

HasDR(raw) == \E i \in 1..Len(raw) : matches_at(upper(raw), i, <<"D", "R">>)

LeadingMinus(raw) == strip(raw) # <<>> /\ Head(strip(raw)) = "-"

\* C16: the value normalize returns for a token with a DR marker is negative
\* (or zero); so is the value of a token with a leading '-' or a pair of
\* parentheses, with or without DR; the value of a token with no DR, no
\* leading '-' and no parenthesis is positive (or zero).
C16_SignRule ==
    (Normalized /\ returned # NaN)
        => /\ HasDR(cell) => returned[1] <= 0
           /\ (LeadingMinus(cell) \/ (contains(cell, "(") /\ contains(cell, ")")))
                  => returned[1] <= 0
           /\ (~HasDR(cell) /\ ~LeadingMinus(cell)
                  /\ ~contains(cell, "(") /\ ~contains(cell, ")"))
                  => returned[1] >= 0

(***************************************************************************)
(* Properties of the two token functions together, under SpecTokens.       *)
(***************************************************************************)
Parsed == called = "parse_custom_date"

Absent == <<>>

HasNoDigit(raw) == keep_chars(raw, Digit) = <<>>

\* C17 as stated: normalize and parse never raise, whatever the input, and
\* they return absent for an empty (or blank, or None) input and for an
\* input without any digit.
C17_TotalAndAbsentWithoutDigit ==
    (Normalized \/ Parsed)
        => /\ returned # Raised
           /\ (strip(cell) = <<>> \/ HasNoDigit(cell)) => returned = Absent

\* C17: normalize and parse never raise, whatever the input, and return
\* absent for an empty (or blank, or None) input; normalize returns absent
\* for an input without any digit.  (parse hands 'today' and 'now' to the
\* library, which reads them as the current date.)
C17_TotalAndAbsentOnEmpty ==
    (Normalized \/ Parsed)
        => /\ returned # Raised
           /\ strip(cell) = <<>> => returned = Absent
           /\ (Normalized /\ HasNoDigit(cell)) => returned = Absent

\* normalize has returned absent for a text on which float() raised
C17_Witness ==
    /\ Normalized
    /\ extract_amount_new_unguarded(cell, TRUE) = Raised
    /\ returned = Absent

(***************************************************************************)
(* Properties of the date-token parser, under SpecTokens.                  *)
(***************************************************************************)
IsDDMMYYYY(text) ==
    /\ Len(text) = 10
    /\ text[3] = "/" /\ text[6] = "/"
    /\ \A i \in {1, 2, 4, 5, 7, 8, 9, 10} : text[i] \in Digit

\* C18: whatever parse returns, if it is not absent, is two digits, '/', two
\* digits, '/', four digits.
C18_ResultIsDDMMYYYY ==
    (Parsed /\ returned # Absent) => IsDDMMYYYY(returned)

\* "00" with a non-digit or the end of the token on both sides
StandaloneDoubleZero(raw) ==
    \E i \in 1..(Len(raw) - 1) :
        /\ raw[i] = "0" /\ raw[i + 1] = "0"
        /\ i > 1 => raw[i - 1] \notin Digit
        /\ i + 1 < Len(raw) => raw[i + 2] \notin Digit

\* C19: parse returns absent for every token that holds a standalone "00",
\* whatever format the token would otherwise have matched; no date, and so
\* no zero-filled date, comes out of it.
C19_StandaloneDoubleZeroRejected ==
    (Parsed /\ StandaloneDoubleZero(cell)) => returned = Absent

\* parse has returned absent for a numeric day/month/year token whose day or
\* month is "00"
C19_Witness ==
    /\ Parsed
    /\ StandaloneDoubleZero(cell)
    /\ re_match(day_month_year, strip(cell), TRUE) # NoMatch
    /\ returned = Absent

\* day, month name of the map and two-digit year with separators
NamedShortYear(raw) ==
    LET m == re_match(day_name_year, strip(raw), TRUE)
    IN  /\ m # NoMatch
        /\ m[5] = 2
        /\ extended_month_map(upper(group(strip(raw), m, 3))) # None

\* a valid day, month and two-digit year in figures, with '-' or '/'
NumericShortYear(raw) ==
    LET m == re_match(day_month_short_year, strip(raw), TRUE)
    IN  /\ m # NoMatch
        /\ \E century \in {1900, 2000} :
               is_valid_date(DMY(int(group(strip(raw), m, 1)),
                                 int(group(strip(raw), m, 3)),
                                 century + int(group(strip(raw), m, 5))))

LastTwo(text) == SubSeq(text, Len(text) - 1, Len(text))

LastFour(text) == SubSeq(text, Len(text) - 3, Len(text))

\* C20: when parse accepts a token that ends in a two-digit year yy, the
\* year of the date it returns is 2000+yy if yy <= 30 and 1900+yy otherwise,
\* in the month-name formats and in the numeric ones alike.
C20_TwoDigitYearPivot ==
    (Parsed /\ returned # Absent /\ (NamedShortYear(cell) \/ NumericShortYear(cell)))
        => LastFour(returned)
               = str_int((IF int(LastTwo(strip(cell))) <= 30 THEN 2000 ELSE 1900)
                         + int(LastTwo(strip(cell))))


(***************************************************************************)
(* Row counts of the two table stages.                                     *)
(***************************************************************************)
\* calculate_difference_and_verify has built the table it returns
ReconcileHasTable == rpc \in {"columns_ok", "differences", "decided", "done"}

\* C21: neither the chronology repair nor the reconciler adds or removes
\* rows: at every step the table of process_all_dates has as many rows as
\* the table it received, and every column of the table that
\* calculate_difference_and_verify builds has as many cells as its input
\* has rows, with or without rotation and with or without adjustment.
C21_RowCountPreserved ==
    /\ Len(table.rows) = Len(original.rows)
    /\ ReconcileHasTable =>
           /\ df_diff.n = df.n
           /\ Len(df_diff.Debits) = df.n
           /\ Len(df_diff.Credits) = df.n
           /\ Len(df_diff.Balance_Adjusted) = df.n
           /\ Len(df_diff.Difference) = df.n

\* a table with a blank row was rotated and returned
C21_Witness ==
    /\ dpc = "done"
    /\ snapshot.pre_order = "descending"
    /\ \E i \in 1..Len(table.rows) : is_empty_row(table.rows[i])
    /\ Len(table.rows) >= 3

\* a ledger of more than one row was adjusted and returned
C21_WitnessAdjusted == rpc = "done" /\ adjusted /\ df_diff.n > 1

(***************************************************************************)
(* Exceptions inside the chronology repair.                                *)
(***************************************************************************)
\* the table date_correction is given at line 1319: every date column of
\* the input parsed (lines 1315-1316)
GivenToDateCorrection ==
    [i \in 1..Len(original.rows) |->
        [original.rows[i] EXCEPT !.xn = parse_custom_date(@),
                                 !.vd = parse_custom_date(@)]]

\* date_correction has just raised in the first call of process_all_dates
DateCorrectionHasRaised ==
    dpc = "rotate" /\ run = 1 /\ snapshot.raised = "date_correction"

\* the first call of process_all_dates has raised and returned
ProcessAllDatesHasRaised ==
    dpc = "done" /\ run = 1 /\ snapshot.raised = "process_all_dates"

\* C22: a stage that raises part-way returns the table it was given with
\* the contents it had before the stage started: date_correction hands
\* back the table it received at line 1319, process_all_dates the table it
\* was called with.
C22_FailSoftReturnsInput ==
    /\ DateCorrectionHasRaised => table.rows = GivenToDateCorrection
    /\ ProcessAllDatesHasRaised => table = original

\* date_correction alone: the table handed back is the table received
C22_DateCorrectionReturnsInput ==
    DateCorrectionHasRaised => table.rows = GivenToDateCorrection

\* after date_correction raised, the stages that follow it ran to the end
C22_FollowingStagesRan ==
    dpc = "done" /\ run = 1 /\ snapshot.raised = "date_correction"

(***************************************************************************)
(* The final verification sweep of date_correction.                        *)
(***************************************************************************)
\* row i of rows is blank, holds no valid date, or holds one that is in
\* order with its nearest valid predecessor and successor
NoViolationAt(rows, i, order) ==
    \/ is_empty_row(rows[i])
    \/ ~valid(rows[i].xn)
    \/ is_date_in_order(rows[i].xn, prev_valid(dates_of(rows), i),
                        next_valid(dates_of(rows), i), order)

\* C23: after the final verification sweep no violation remains: every
\* non-blank row holding a valid date is in order, in the direction
\* inferred at the start of date_correction, with its nearest valid
\* predecessor and its nearest valid successor.
C23_NoResidualViolation ==
    [][FinalSweep =>
         \A i \in 1..Len(table'.rows) :
             NoViolationAt(table'.rows, i, date_order)]_vars


(***************************************************************************)
(* The local repair loop of date_correction.                               *)
(***************************************************************************)
\* C24: the local repair loop executes at most 5 passes and ends right
\* after the first pass in which no date was changed, a pass that found a
\* violating row but applied no candidate to it included: after a pass
\* the loop goes on exactly when the pass changed a date and fewer than 5
\* passes have run.
C24_LoopEndsOnUnchangedPass ==
    /\ [](iteration <= 5)
    /\ [][LocalRepairPass =>
             (dpc' = "local_loop" <=> (table' # table /\ iteration' < 5))]_vars

\* the bound alone: never more than 5 passes
C24_AtMostFivePasses == iteration <= 5

\* a second pass begins although the first one changed no date
C24_PassAfterUnchangedPass ==
    /\ dpc = "local_loop" /\ run = 1 /\ iteration = 1
    /\ dates_of(table.rows) = snapshot.parsed

\* the rows a pass of the local loop would treat: non-blank, with a valid
\* date that is out of order with its nearest valid neighbours
ViolatingRows(rows, order) ==
    { i \in 1..Len(rows) : ~NoViolationAt(rows, i, order) }

\* a pass is about to start and row idx is the first it will treat
FirstTreated(idx) ==
    /\ dpc = "local_loop"
    /\ idx \in ViolatingRows(table.rows, date_order)
    /\ \A j \in ViolatingRows(table.rows, date_order) : idx <= j

\* Strategy 2 of the local loop for row idx of the table
Synthesized(idx) ==
    LET dates == dates_of(table.rows)
    IN  IF date_order = "ascending"
        THEN predict_ascending(dates[idx], prev_valid(dates, idx), next_valid(dates, idx))
        ELSE predict_descending(dates[idx], prev_valid(dates, idx), next_valid(dates, idx))

\* Strategy 2 is what decides row idx: its neighbours do not hold the same
\* date and its value date is missing, invalid or out of order
DecidedByStrategy2(idx) ==
    LET dates == dates_of(table.rows)
        prev_date == prev_valid(dates, idx)
        next_date == next_valid(dates, idx)
    IN  /\ ~same_above_below(prev_date, next_date)
        /\ value_date_candidate(table.rows[idx], table.vcol,
                                prev_date, next_date, date_order) = EMPTY

\* the neighbours of row idx exist, differ and lie at most 100 days apart
GapAtMost100(idx) ==
    LET dates == dates_of(table.rows)
        prev_date == prev_valid(dates, idx)
        next_date == next_valid(dates, idx)
    IN  /\ valid(prev_date) /\ valid(next_date) /\ prev_date # next_date
        /\ Abs(dt(next_date) - dt(prev_date)) <= 100

\* the middle of the gap between the neighbours, rounded either way
Midpoints(idx) ==
    LET dates == dates_of(table.rows)
        a == dt(prev_valid(dates, idx))
        b == dt(next_valid(dates, idx))
        low == IF a <= b THEN a ELSE b
        gap == Abs(b - a)
    IN  { strftime(low + gap \div 2), strftime(low + (gap + 1) \div 2) }

\* one day from a valid neighbour, either way
SingleDaySteps(idx) ==
    LET dates == dates_of(table.rows)
    IN  { strftime(dt(d) + s) : d \in { x \in {prev_valid(dates, idx),
                                                 next_valid(dates, idx)} : valid(x) },
                                s \in {-1, 1} }

\* C25: in the local repair loop, for a row whose valid date violates
\* monotonicity and that has no usable value date: when both neighbours
\* exist with different dates at most 100 days apart, the synthesized
\* candidate is the midpoint of their gap; otherwise it is a single-day
\* step from a neighbour.
C25_MidpointOrSingleStep ==
    \A idx \in 1..Len(table.rows) :
        (FirstTreated(idx) /\ DecidedByStrategy2(idx))
            => IF GapAtMost100(idx)
               THEN Synthesized(idx) \in Midpoints(idx)
               ELSE Synthesized(idx) \in SingleDaySteps(idx)

\* the single-day step of lines 774-780, 808, 815, 826 (ascending) and of
\* the mirrored lines 831-896 (descending)
SingleDayStep(idx) ==
    LET dates == dates_of(table.rows)
        current_date == dates[idx]
        prev_date == prev_valid(dates, idx)
        next_date == next_valid(dates, idx)
    IN  IF date_order = "ascending"
        THEN IF valid(next_date)
                /\ (~valid(prev_date)
                    \/ (dt(prev_date) < dt(next_date)
                        /\ dt(current_date) > dt(next_date)))
             THEN strftime(dt(next_date) - 1)
             ELSE strftime(dt(prev_date) + 1)
        ELSE IF valid(prev_date)
                /\ (~valid(next_date)
                    \/ (dt(next_date) < dt(prev_date)
                        /\ dt(current_date) > dt(prev_date)))
             THEN strftime(dt(prev_date) - 1)
             ELSE strftime(dt(next_date) + 1)

\* C25 as the code has it: the synthesized candidate of a violating row is
\* a single-day step in every case, whatever the gap between the
\* neighbours.  Ascending: one day before the successor when the date lies
\* after a successor that is later than the predecessor, or when there is
\* no predecessor; one day after the predecessor otherwise.  Descending:
\* one day before the predecessor when the date lies after a predecessor
\* that is later than the successor, or when there is no successor; one
\* day after the successor otherwise.
C25_AlwaysSingleStep ==
    \A idx \in 1..Len(table.rows) :
        (FirstTreated(idx) /\ DecidedByStrategy2(idx))
            => Synthesized(idx) = SingleDayStep(idx)

\* a violating row between two neighbours 4 days apart gets a candidate
\* that is not the middle of the gap, and the pass writes it
C25_Witness ==
    /\ dpc \in {"local_loop", "run_repair"} /\ iteration = 1 /\ run = 1
    /\ Len(snapshot.parsed) = 3
    /\ snapshot.parsed[1] = DMY(1, 1, 2024)
    /\ snapshot.parsed[3] = DMY(5, 1, 2024)
    /\ snapshot.parsed[2] = DMY(10, 6, 2024)
    /\ table.rows[2].xn = DMY(4, 1, 2024)


\* the dates as the pass sees them when it reaches row idx: the rows above
\* as the pass leaves them, row idx and the rows below as it found them
SeenAt(idx) ==
    [j \in 1..Len(table.rows) |->
        IF j < idx THEN table'.rows[j].xn ELSE table.rows[j].xn]

\* the candidate the pass builds for row idx
CandidateAt(idx) ==
    candidate_for(table.rows[idx], table.vcol, table.rows[idx].xn,
                  prev_valid(SeenAt(idx), idx), next_valid(SeenAt(idx), idx),
                  date_order)

\* the check of lines 898-901 on a date for row idx
PassesCheckAt(date_str, idx) ==
    /\ date_str # EMPTY
    /\ is_valid_date(date_str)
    /\ is_date_in_order(date_str, prev_valid(SeenAt(idx), idx),
                        next_valid(SeenAt(idx), idx), date_order)

\* the pass treats row idx: non-blank, valid date, out of order
TreatedAt(idx) ==
    /\ ~is_empty_row(table.rows[idx])
    /\ valid(table.rows[idx].xn)
    /\ ~is_date_in_order(table.rows[idx].xn, prev_valid(SeenAt(idx), idx),
                         next_valid(SeenAt(idx), idx), date_order)

\* C26: in a pass of the local repair loop a date is overwritten only by
\* a candidate that is a valid date and in order against the predecessor
\* and successor used to detect the violation; when the candidate fails
\* that check, the row's date is left exactly as it was.
C26_OnlyCheckedCandidatesWritten ==
    [][LocalRepairPass =>
         \A idx \in 1..Len(table.rows) :
             /\ table'.rows[idx].xn # table.rows[idx].xn
                    => /\ TreatedAt(idx)
                       /\ table'.rows[idx].xn = CandidateAt(idx)
                       /\ PassesCheckAt(table'.rows[idx].xn, idx)
             /\ (TreatedAt(idx) /\ ~PassesCheckAt(CandidateAt(idx), idx))
                    => table'.rows[idx].xn = table.rows[idx].xn]_vars

\* the first pass overwrote one violating row and left another, whose
\* candidate failed the check, as it was
C26_Witness ==
    /\ dpc \in {"local_loop", "run_repair"} /\ iteration = 1 /\ run = 1
    /\ \E i, j \in 1..Len(table.rows) :
          /\ table.rows[i].xn # snapshot.parsed[i]
          /\ table.rows[j].xn = snapshot.parsed[j]
          /\ ~NoViolationAt(table.rows, j, date_order)

(***************************************************************************)
(* The same-date rule of date_correction.                                  *)
(***************************************************************************)
\* the nearest valid dates above and below row idx, as a stage sees them
\* when it reaches the row, are the same date
SameDateAround(idx) ==
    same_above_below(prev_valid(SeenAt(idx), idx), next_valid(SeenAt(idx), idx))

\* row idx is non-blank and holds no valid date: a row of a run
InRun(idx) ==
    ~is_empty_row(table.rows[idx]) /\ ~is_valid_date(table.rows[idx].xn)

\* the nearest valid dates above and below row idx before run repair
SameDateAroundRun(idx) ==
    same_above_below(prev_valid(dates_of(table.rows), idx),
                     next_valid(dates_of(table.rows), idx))

\* C27: whenever a row is treated and its nearest valid predecessor and
\* nearest valid successor hold the same date, the row is set to that
\* date: a row with a valid date out of order in the local loop and in the
\* final sweep, a row of a run in run repair; the value date and the
\* synthesized dates are not used for it.
C27_SameDateRule ==
    /\ [][LocalRepairPass =>
             \A idx \in 1..Len(table.rows) :
                 (TreatedAt(idx) /\ SameDateAround(idx))
                     => table'.rows[idx].xn = prev_valid(SeenAt(idx), idx)]_vars
    /\ [][FinalSweep =>
             \A idx \in 1..Len(table.rows) :
                 (TreatedAt(idx) /\ SameDateAround(idx))
                     => table'.rows[idx].xn = prev_valid(SeenAt(idx), idx)]_vars
    /\ [][RunRepair =>
             \A idx \in 1..Len(table.rows) :
                 (InRun(idx) /\ SameDateAroundRun(idx))
                     => table'.rows[idx].xn = prev_valid(dates_of(table.rows), idx)]_vars

\* the first pass of the local loop set a violating row that has a value
\* date to the date its two neighbours share
C27_Witness ==
    /\ dpc \in {"local_loop", "run_repair"} /\ iteration = 1 /\ run = 1
    /\ \E i \in 2..(Len(table.rows) - 1) :
          /\ table.rows[i].xn # snapshot.parsed[i]
          /\ valid(snapshot.parsed[i])
          /\ table.rows[i].vd # EMPTY
          /\ same_above_below(table.rows[i-1].xn, table.rows[i+1].xn)
          /\ table.rows[i-1].xn = snapshot.parsed[i-1]
          /\ table.rows[i].xn = table.rows[i-1].xn

\* run repair gave a row of a run the date its two neighbours share
C27_WitnessRun ==
    /\ dpc = "final_sweep" /\ run = 1
    /\ \E i \in 2..(Len(table.rows) - 1) :
          /\ ~is_empty_row(table.rows[i])
          /\ ~is_valid_date(snapshot.parsed[i])
          /\ valid(snapshot.parsed[i-1])
          /\ same_above_below(table.rows[i-1].xn, table.rows[i+1].xn)
          /\ table.rows[i].xn = table.rows[i-1].xn

(***************************************************************************)
(* The year pass.                                                          *)
(***************************************************************************)
\* the year pass has something to vote on: at least two valid dates
YearPassRuns == Len(SelectSeq(dates_of(table.rows), is_valid_date)) >= 2

\* C28: the year pass changes only the year of a date (day and month are
\* kept), only when the new date is valid and in order with its nearest
\* valid neighbours, and, when the new year is not that of the row's value
\* date, only when it differs from the old year by at most 5; every other
\* date is left unchanged.
C28_YearPassChangesOnlyYear ==
    [][YearFix =>
         \A idx \in 1..Len(table.rows) :
             LET old == table.rows[idx].xn
                 new == table'.rows[idx].xn
             IN  new # old =>
                    /\ YearPassRuns
                    /\ is_valid_date(old)
                    /\ is_valid_date(new)
                    /\ new[2] = old[2] /\ new[3] = old[3]
                    /\ is_date_in_order(new, prev_valid(SeenAt(idx), idx),
                                        next_valid(SeenAt(idx), idx),
                                        year_pass_order(dates_of(table.rows)))
                    /\ \/ /\ table.vcol
                          /\ valid(table.rows[idx].vd)
                          /\ new[4] = table.rows[idx].vd[4]
                       \/ Abs(new[4] - old[4]) <= 5]_vars

\* the pass moved a date of 2023 to the year of its predecessor, in a table
\* without value dates, and left a date of 2017 as it was
C28_Witness ==
    /\ dpc = "drop_value_date"
    /\ ~table.vcol
    /\ \E i, j \in 1..Len(table.rows) :
          /\ original.rows[i].xn = DMY(10, 6, 2023)
          /\ table.rows[i].xn = DMY(10, 6, 2024)
          /\ original.rows[j].xn = DMY(10, 6, 2017)
          /\ table.rows[j].xn = DMY(10, 6, 2017)

\* the year of a value date was taken
C28_WitnessValueDate ==
    /\ dpc = "drop_value_date"
    /\ table.vcol
    /\ \E i \in 1..Len(table.rows) :
          /\ original.rows[i].xn = DMY(10, 6, 2017)
          /\ table.rows[i].xn = DMY(10, 6, 2024)

(***************************************************************************)
(* clean_main: the chronology repair and the reconciliation together.      *)
(***************************************************************************)
\* what calculate_difference_and_verify returned, as one record
Returned ==
    [Difference |-> df_diff.Difference,
     Balance_Adjusted |-> df_diff.Balance_Adjusted,
     adjusted |-> adjusted,
     all_correct |-> all_correct]

\* the reconciliation of the amount columns of rows, in the order of rows
ReconciliationOf(rows) ==
    LET kept == step_ensure_required_columns(rows)
    IN  reconciled([k \in 1..Len(kept) |-> debit_of(kept[k])],
                   [k \in 1..Len(kept) |-> credit_of(kept[k])],
                   [k \in 1..Len(kept) |-> balance_of(kept[k])])

\* clean_main has reconciled the table
Reconciled == dpc \in {"cleaned", "saved"} /\ rpc = "done"

\* the function reconciled agrees with the steps of the reconciler
ReconciledAgreesWithSteps ==
    Reconciled => Returned = reconciled(df.Debits, df.Credits, df.Balance)

Saved == dpc = "saved" /\ rpc = "done"

RowsWereDropped == Len(table.rows) < Len(original.rows)

C30_AdjustedBalanceWhenNoRowDropped ==
    (Saved /\ adjusted /\ ~RowsWereDropped) =>
        \A k \in 1..Len(table.rows) :
            /\ balance_of(table.rows[k]) # NaN
            /\ balance_of(table.rows[k]) = df_diff.Balance_Adjusted[k]

C30_AdjustedAfterDrop == Saved /\ adjusted /\ RowsWereDropped

=============================================================================
